---- MODULE Spec2Model ----
(***************************************************************************)
(* Model of the hand-gesture drawing engine of the web application         *)
(* (App.tsx): the stroke store with undo/redo and erase, the track         *)
(* assigner, the role arbitrator and the per-frame interaction resolver.   *)
(*                                                                         *)
(* Numbers.  The program computes with IEEE doubles; the model computes    *)
(* with integers in fixed point:                                           *)
(*   canvas coordinates   1 unit = 0.1 px                                  *)
(*   stroke widths        1 unit = 0.01 px                                 *)
(*   hand scale (scalePx) 1 unit = 0.01 px                                 *)
(*   angles               1 unit = 0.001 rad                               *)
(*   ratios, sin, cos     1 unit = 0.001                                   *)
(*   pinch strength       1 unit = 0.01                                    *)
(*   time                 1 unit = 1 ms                                    *)
(* Divisions round (towards minus infinity, \div) where the doubles round  *)
(* to the nearest representable value.                                     *)
(***************************************************************************)
EXTENDS Integers, Sequences, FiniteSets, TLC

\* ------------------------------------------------------------------ utils
Inf == 1000000000

Pi == 3142

HalfPi == 1571

Min2(a, b) == IF a < b THEN a ELSE b

Max2(a, b) == IF a > b THEN a ELSE b

Abs(a) == IF a < 0 THEN -a ELSE a

\* a / b rounded to the nearest integer, b > 0
RDiv(a, b) == (2 * a + b) \div (2 * b)

clamp(v, a, b) == Max2(a, Min2(b, v))

RECURSIVE SqrtIter(_, _)
SqrtIter(n, r) ==
  LET r2 == (r + n \div r) \div 2
  IN  IF r2 >= r THEN r ELSE SqrtIter(n, r2)

\* floor of the square root
ISqrt(n) == IF n <= 0 THEN 0 ELSE IF n < 4 THEN 1 ELSE SqrtIter(n, n \div 2)

Dist2(a, b) == (a.x - b.x) * (a.x - b.x) + (a.y - b.y) * (a.y - b.y)

dist(a, b) == ISqrt(Dist2(a, b))

Pt(x, y) == [x |-> x, y |-> y]

emptyBBox == [minX |-> Inf, minY |-> Inf, maxX |-> -Inf, maxY |-> -Inf]

expandBBox(bb, p) ==
  [minX |-> Min2(bb.minX, p.x), minY |-> Min2(bb.minY, p.y),
   maxX |-> Max2(bb.maxX, p.x), maxY |-> Max2(bb.maxY, p.y)]

padBBox(bb, pad) ==
  [minX |-> bb.minX - pad, minY |-> bb.minY - pad,
   maxX |-> bb.maxX + pad, maxY |-> bb.maxY + pad]

bboxContains(bb, p) ==
  p.x >= bb.minX /\ p.x <= bb.maxX /\ p.y >= bb.minY /\ p.y <= bb.maxY

RECURSIVE BBoxFrom(_, _, _)
BBoxFrom(pts, i, bb) ==
  IF i > Len(pts) THEN bb ELSE BBoxFrom(pts, i + 1, expandBBox(bb, pts[i]))

computeBBox(pts) == IF Len(pts) = 0 THEN emptyBBox ELSE BBoxFrom(pts, 1, emptyBBox)

RECURSIVE normAngleDelta(_)
normAngleDelta(d) ==
  IF d > Pi THEN normAngleDelta(d - 2 * Pi)
  ELSE IF d < -Pi THEN normAngleDelta(d + 2 * Pi)
  ELSE d

\* Math.sin in thousandths, of an angle in thousandths of a radian
\* (Bhaskara's rational approximation on [0, Pi], odd extension)
SinPos(a) ==
  LET q == a * (Pi - a)
  IN  RDiv(16000 * (q \div 100), (5 * Pi * Pi - 4 * q) \div 100)

Sin(a) ==
  LET n == normAngleDelta(a)
  IN  IF n < 0 THEN -SinPos(-n) ELSE SinPos(n)

Cos(a) == Sin(a + HalfPi)

\* Math.atan on [0, 1], argument and result in thousandths
AtanUnit(z) == (785 * z + (273 * z * (1000 - z)) \div 1000) \div 1000

\* Math.atan2(y, x) in thousandths of a radian
Atan2(y, x) ==
  LET ax == Abs(x)
      ay == Abs(y)
      base == IF ax = 0 /\ ay = 0 THEN 0
              ELSE IF ay <= ax THEN AtanUnit((ay * 1000) \div ax)
              ELSE HalfPi - AtanUnit((ax * 1000) \div ay)
      q == IF x >= 0 THEN base ELSE Pi - base
  IN  IF y >= 0 THEN q ELSE -q

\* distToSegment squared: every caller only compares distances, and the
\* comparisons are made on the squares so that no square root rounds them
distToSegmentSq(p, a, b) ==
  LET vx == b.x - a.x
      vy == b.y - a.y
      wx == p.x - a.x
      wy == p.y - a.y
      c1 == vx * wx + vy * wy
      c2 == vx * vx + vy * vy
      g  == Max2(1, c2 \div 1000000)
      t  == ((c1 \div g) * 1000) \div Max2(1, c2 \div g)
      px == a.x + (t * vx) \div 1000
      py == a.y + (t * vy) \div 1000
  IN  IF c1 <= 0 THEN Dist2(p, a)
      ELSE IF c2 <= c1 THEN Dist2(p, b)
      ELSE Dist2(p, Pt(px, py))

\* ------------------------------------------------------------ stroke store
\* A store value S holds strokesRef (strokes), strokeByIdRef (byId),
\* redoRef (redo), needsFullRedrawRef (redraw) and the supply of fresh ids
\* (uid).  A stroke object is created with a fresh id and never changes it,
\* so an object is identified by its id: a write through one reference is
\* seen through every reference to the same object.
NoId == 0

EraserRadius == 300

PickRadius == 420

StrokePoint(p, t, w) == [x |-> p.x, y |-> p.y, t |-> t, w |-> w]

MapSet(m, k, v) == [j \in (DOMAIN m) \cup {k} |-> IF j = k THEN v ELSE m[j]]

MapDelete(m, k) == [j \in (DOMAIN m) \ {k} |-> m[j]]

EmptyMap == [j \in {} |-> NoId]

\* the write of object s (identified by s.id) as seen through every reference
WriteObj(S, s) ==
  [S EXCEPT
     !.strokes = [i \in 1..Len(S.strokes) |->
                    IF S.strokes[i].id = s.id THEN s ELSE S.strokes[i]],
     !.redo    = [i \in 1..Len(S.redo) |->
                    IF S.redo[i].id = s.id THEN s ELSE S.redo[i]],
     !.byId    = [k \in DOMAIN S.byId |->
                    IF S.byId[k].id = s.id THEN s ELSE S.byId[k]]]

startStroke(S, color, p, t, thickness) ==
  LET s == [id |-> S.uid, color |-> color,
            points |-> <<StrokePoint(p, t, thickness)>>,
            bbox |-> expandBBox(emptyBBox, p)]
  IN  [S EXCEPT !.redo = <<>>,
                !.strokes = Append(S.strokes, s),
                !.byId = MapSet(S.byId, s.id, s),
                !.uid = S.uid + 1]

\* addStrokePoint dropping a point that repeats the stroke's last point
addStrokePointNoRepeat(S, strokeId, p, t, thickness) ==
  IF strokeId \notin DOMAIN S.byId THEN S
  ELSE LET s == S.byId[strokeId]
           q == s.points[Len(s.points)]
       IN  IF q.x = p.x /\ q.y = p.y THEN S
           ELSE WriteObj(S, [s EXCEPT !.points = Append(s.points, StrokePoint(p, t, thickness)),
                                      !.bbox = expandBBox(s.bbox, p)])

\* addStrokePoint as it would be if it found the stroke by a reference of
\* its own, also when the stroke is on the redo stack
addStrokePointInRedo(S, strokeId, p, t, thickness) ==
  IF strokeId \in DOMAIN S.byId
  THEN WriteObj(S, [S.byId[strokeId] EXCEPT
                      !.points = Append(@, StrokePoint(p, t, thickness)),
                      !.bbox = expandBBox(@, p)])
  ELSE [S EXCEPT !.redo = [i \in 1..Len(S.redo) |->
                             IF S.redo[i].id = strokeId
                             THEN [S.redo[i] EXCEPT
                                     !.points = Append(@, StrokePoint(p, t, thickness)),
                                     !.bbox = expandBBox(@, p)]
                             ELSE S.redo[i]]]

addStrokePoint(S, strokeId, p, t, thickness) ==
  IF strokeId \notin DOMAIN S.byId THEN S
  ELSE LET s == S.byId[strokeId]
       IN  WriteObj(S, [s EXCEPT !.points = Append(s.points, StrokePoint(p, t, thickness)),
                                 !.bbox = expandBBox(s.bbox, p)])

\* undo as it would be if it left the undone stroke in the id map
undoKeepsKey(S) ==
  IF Len(S.strokes) = 0 THEN S
  ELSE [S EXCEPT !.strokes = SubSeq(S.strokes, 1, Len(S.strokes) - 1),
                 !.redo = Append(S.redo, S.strokes[Len(S.strokes)]),
                 !.redraw = TRUE]

undo(S) ==
  IF Len(S.strokes) = 0 THEN S
  ELSE LET last == S.strokes[Len(S.strokes)]
       IN  [S EXCEPT !.strokes = SubSeq(S.strokes, 1, Len(S.strokes) - 1),
                     !.byId = MapDelete(S.byId, last.id),
                     !.redo = Append(S.redo, last),
                     !.redraw = TRUE]

\* redo as it would be if it put the stroke back at the front of the list
redoAtFront(S) ==
  IF Len(S.redo) = 0 THEN S
  ELSE LET back == S.redo[Len(S.redo)]
       IN  [S EXCEPT !.redo = SubSeq(S.redo, 1, Len(S.redo) - 1),
                     !.strokes = <<back>> \o S.strokes,
                     !.byId = MapSet(S.byId, back.id, back),
                     !.redraw = TRUE]

redo(S) ==
  IF Len(S.redo) = 0 THEN S
  ELSE LET back == S.redo[Len(S.redo)]
       IN  [S EXCEPT !.redo = SubSeq(S.redo, 1, Len(S.redo) - 1),
                     !.strokes = Append(S.strokes, back),
                     !.byId = MapSet(S.byId, back.id, back),
                     !.redraw = TRUE]

\* undo and redo of the earlier user interface (ui/App.tsx), which keeps the
\* redo stack front first and has no id lookup map
undoUi(S) ==
  IF Len(S.strokes) = 0 THEN S
  ELSE [S EXCEPT !.redo = <<S.strokes[Len(S.strokes)]>> \o S.redo,
                 !.strokes = SubSeq(S.strokes, 1, Len(S.strokes) - 1),
                 !.redraw = TRUE]

redoUi(S) ==
  IF Len(S.redo) = 0 THEN S
  ELSE [S EXCEPT !.redo = Tail(S.redo),
                 !.strokes = Append(S.strokes, Head(S.redo)),
                 !.redraw = TRUE]

clearAll(S) ==
  IF Len(S.strokes) = 0 THEN S
  ELSE [S EXCEPT !.strokes = <<>>, !.redo = <<>>, !.byId = EmptyMap, !.redraw = TRUE]

\* the inner loop of eraseStrokeAt over the points of one stroke
RECURSIVE EraseRuns(_, _, _, _, _, _)
EraseRuns(pts, i, pt, cur, segs, hit) ==
  IF i > Len(pts)
  THEN [segments |-> IF Len(cur) > 0 THEN Append(segs, cur) ELSE segs, strokeHit |-> hit]
  ELSE IF Dist2(pts[i], pt) > EraserRadius * EraserRadius
       THEN EraseRuns(pts, i + 1, pt, Append(cur, pts[i]), segs, hit)
       ELSE EraseRuns(pts, i + 1, pt, <<>>,
                      IF Len(cur) > 0 THEN Append(segs, cur) ELSE segs, TRUE)

\* EraseKeep as it would be if runs of a single point were kept
RECURSIVE EraseKeepSingles(_, _, _, _, _)
EraseKeepSingles(s, segs, j, out, uid) ==
  IF j > Len(segs) THEN [next |-> out, uid |-> uid]
  ELSE EraseKeepSingles(s, segs, j + 1,
                        Append(out, [s EXCEPT !.id = uid, !.points = segs[j],
                                              !.bbox = computeBBox(segs[j])]),
                        uid + 1)

\* the strokes pushed for the segments of a hit stroke, each with a fresh id
RECURSIVE EraseKeep(_, _, _, _, _)
EraseKeep(s, segs, j, out, uid) ==
  IF j > Len(segs) THEN [next |-> out, uid |-> uid]
  ELSE IF Len(segs[j]) > 1
       THEN EraseKeep(s, segs, j + 1,
                      Append(out, [s EXCEPT !.id = uid, !.points = segs[j],
                                            !.bbox = computeBBox(segs[j])]),
                      uid + 1)
       ELSE EraseKeep(s, segs, j + 1, out, uid)

\* EraseLoop as it would be if the quick bbox check did not pad the bbox by
\* the radius
RECURSIVE EraseLoopNoPad(_, _, _, _, _, _)
EraseLoopNoPad(strokes, i, pt, next, uid, changed) ==
  IF i > Len(strokes) THEN [next |-> next, uid |-> uid, changed |-> changed]
  ELSE LET s == strokes[i]
       IN  IF \/ pt.x < s.bbox.minX
              \/ pt.x > s.bbox.maxX
              \/ pt.y < s.bbox.minY
              \/ pt.y > s.bbox.maxY
           THEN EraseLoopNoPad(strokes, i + 1, pt, Append(next, s), uid, changed)
           ELSE LET r == EraseRuns(s.points, 1, pt, <<>>, <<>>, FALSE)
                IN  IF r.strokeHit
                    THEN LET k == EraseKeep(s, r.segments, 1, next, uid)
                         IN  EraseLoopNoPad(strokes, i + 1, pt, k.next, k.uid, TRUE)
                    ELSE EraseLoopNoPad(strokes, i + 1, pt, Append(next, s), uid, changed)

\* the outer loop of eraseStrokeAt over the strokes
RECURSIVE EraseLoop(_, _, _, _, _, _)
EraseLoop(strokes, i, pt, next, uid, changed) ==
  IF i > Len(strokes) THEN [next |-> next, uid |-> uid, changed |-> changed]
  ELSE LET s == strokes[i]
       IN  IF \/ pt.x < s.bbox.minX - EraserRadius
              \/ pt.x > s.bbox.maxX + EraserRadius
              \/ pt.y < s.bbox.minY - EraserRadius
              \/ pt.y > s.bbox.maxY + EraserRadius
           THEN EraseLoop(strokes, i + 1, pt, Append(next, s), uid, changed)
           ELSE LET r == EraseRuns(s.points, 1, pt, <<>>, <<>>, FALSE)
                IN  IF r.strokeHit
                    THEN LET k == EraseKeep(s, r.segments, 1, next, uid)
                         IN  EraseLoop(strokes, i + 1, pt, k.next, k.uid, TRUE)
                    ELSE EraseLoop(strokes, i + 1, pt, Append(next, s), uid, changed)

MapOf(strokes) ==
  [k \in {strokes[i].id : i \in 1..Len(strokes)} |->
     LET i == CHOOSE j \in 1..Len(strokes) :
                /\ strokes[j].id = k
                /\ \A h \in (j + 1)..Len(strokes) : strokes[h].id # k
     IN  strokes[i]]

\* eraseStrokeAt as it would be if it added the derived strokes to the id
\* map and left the strokes it took from the list in it
eraseStrokeAtKeepsKeys(S, pt) ==
  LET r == EraseLoop(S.strokes, 1, pt, <<>>, S.uid, FALSE)
  IN  IF r.changed
      THEN [S EXCEPT !.strokes = r.next,
                     !.byId = [k \in (DOMAIN S.byId) \cup (DOMAIN MapOf(r.next)) |->
                                 IF k \in DOMAIN MapOf(r.next) THEN MapOf(r.next)[k]
                                 ELSE S.byId[k]],
                     !.redraw = TRUE, !.uid = r.uid]
      ELSE S

\* eraseStrokeAt as it would be if it left the full redraw to others
eraseStrokeAtNoRedraw(S, pt) ==
  LET r == EraseLoop(S.strokes, 1, pt, <<>>, S.uid, FALSE)
  IN  IF r.changed
      THEN [S EXCEPT !.strokes = r.next, !.byId = MapOf(r.next), !.uid = r.uid]
      ELSE S

eraseStrokeAt(S, pt) ==
  LET r == EraseLoop(S.strokes, 1, pt, <<>>, S.uid, FALSE)
  IN  IF r.changed
      THEN [S EXCEPT !.strokes = r.next, !.byId = MapOf(r.next),
                     !.redraw = TRUE, !.uid = r.uid]
      ELSE S

\* the inner loop of pickStroke over the segments of one stroke
RECURSIVE PickSegs(_, _, _, _)
PickSegs(s, i, p, best) ==
  IF i > Len(s.points) THEN best
  ELSE LET d == distToSegmentSq(p, s.points[i - 1], s.points[i])
       IN  PickSegs(s, i + 1, p,
                    IF d < best.d THEN [id |-> s.id, d |-> d] ELSE best)

\* PickLoop as it would be if the bbox check did not pad the bbox by the
\* pick radius
RECURSIVE PickLoopNoPad(_, _, _, _)
PickLoopNoPad(strokes, i, p, best) ==
  IF i > Len(strokes) THEN best
  ELSE IF ~bboxContains(strokes[i].bbox, p)
       THEN PickLoopNoPad(strokes, i + 1, p, best)
       ELSE PickLoopNoPad(strokes, i + 1, p, PickSegs(strokes[i], 2, p, best))

RECURSIVE PickLoop(_, _, _, _)
PickLoop(strokes, i, p, best) ==
  IF i > Len(strokes) THEN best
  ELSE IF ~bboxContains(padBBox(strokes[i].bbox, PickRadius), p)
       THEN PickLoop(strokes, i + 1, p, best)
       ELSE PickLoop(strokes, i + 1, p, PickSegs(strokes[i], 2, p, best))

pickStroke(S, p) ==
  LET best == PickLoop(S.strokes, 1, p, [id |-> NoId, d |-> Inf])
  IN  IF best.d < PickRadius * PickRadius THEN best.id ELSE NoId

\* translateStroke as it would be if it left the cached bbox alone
translateStrokeStaleBBox(S, strokeId, dx, dy) ==
  IF strokeId \notin DOMAIN S.byId THEN S
  ELSE LET s == S.byId[strokeId]
           s2 == [s EXCEPT
                    !.points = [i \in 1..Len(s.points) |->
                                  [s.points[i] EXCEPT !.x = @ + dx, !.y = @ + dy]]]
       IN  [WriteObj(S, s2) EXCEPT !.redraw = TRUE]

\* translateStroke as it would be if a stroke missing from the lookup map
\* were looked for in the redo stack
translateStrokeInRedo(S, strokeId, dx, dy) ==
  IF strokeId \notin DOMAIN S.byId
  THEN [S EXCEPT !.redo = [i \in 1..Len(S.redo) |->
                            IF S.redo[i].id # strokeId THEN S.redo[i]
                            ELSE [S.redo[i] EXCEPT
                                    !.points = [j \in 1..Len(S.redo[i].points) |->
                                                  [S.redo[i].points[j] EXCEPT
                                                     !.x = @ + dx, !.y = @ + dy]]]]]
  ELSE LET s == S.byId[strokeId]
           s2 == [s EXCEPT
                    !.points = [i \in 1..Len(s.points) |->
                                  [s.points[i] EXCEPT !.x = @ + dx, !.y = @ + dy]],
                    !.bbox = [minX |-> s.bbox.minX + dx, maxX |-> s.bbox.maxX + dx,
                              minY |-> s.bbox.minY + dy, maxY |-> s.bbox.maxY + dy]]
       IN  [WriteObj(S, s2) EXCEPT !.redraw = TRUE]

translateStroke(S, strokeId, dx, dy) ==
  IF strokeId \notin DOMAIN S.byId THEN S
  ELSE LET s == S.byId[strokeId]
           s2 == [s EXCEPT
                    !.points = [i \in 1..Len(s.points) |->
                                  [s.points[i] EXCEPT !.x = @ + dx, !.y = @ + dy]],
                    !.bbox = [minX |-> s.bbox.minX + dx, maxX |-> s.bbox.maxX + dx,
                              minY |-> s.bbox.minY + dy, maxY |-> s.bbox.maxY + dy]]
       IN  [WriteObj(S, s2) EXCEPT !.redraw = TRUE]

RECURSIVE SumX(_, _)
SumX(pts, i) == IF i > Len(pts) THEN 0 ELSE pts[i].x + SumX(pts, i + 1)

RECURSIVE SumY(_, _)
SumY(pts, i) == IF i > Len(pts) THEN 0 ELSE pts[i].y + SumY(pts, i + 1)

\* the centroid loop of rotateStroke and scaleStroke
Centroid(pts) == Pt(RDiv(SumX(pts, 1), Len(pts)), RDiv(SumY(pts, 1), Len(pts)))

\* rotateStroke as it would be if it turned the stroke about the center of
\* its bounding box
rotateStrokeAboutBBox(S, strokeId, dAng) ==
  IF strokeId \notin DOMAIN S.byId THEN S
  ELSE LET s == S.byId[strokeId]
           c == Pt(RDiv(s.bbox.minX + s.bbox.maxX, 2), RDiv(s.bbox.minY + s.bbox.maxY, 2))
           sin == Sin(dAng)
           cos == Cos(dAng)
           pts == [i \in 1..Len(s.points) |->
                     LET x == s.points[i].x - c.x
                         y == s.points[i].y - c.y
                     IN  [s.points[i] EXCEPT
                            !.x = c.x + RDiv(x * cos - y * sin, 1000),
                            !.y = c.y + RDiv(x * sin + y * cos, 1000)]]
           s2 == [s EXCEPT !.points = pts, !.bbox = BBoxFrom(pts, 1, emptyBBox)]
       IN  [WriteObj(S, s2) EXCEPT !.redraw = TRUE]

rotateStroke(S, strokeId, dAng) ==
  IF strokeId \notin DOMAIN S.byId THEN S
  ELSE LET s == S.byId[strokeId]
           c == Centroid(s.points)
           sin == Sin(dAng)
           cos == Cos(dAng)
           pts == [i \in 1..Len(s.points) |->
                     LET x == s.points[i].x - c.x
                         y == s.points[i].y - c.y
                     IN  [s.points[i] EXCEPT
                            !.x = c.x + RDiv(x * cos - y * sin, 1000),
                            !.y = c.y + RDiv(x * sin + y * cos, 1000)]]
           s2 == [s EXCEPT !.points = pts, !.bbox = BBoxFrom(pts, 1, emptyBBox)]
       IN  [WriteObj(S, s2) EXCEPT !.redraw = TRUE]

scaleStroke(S, strokeId, k) ==
  IF strokeId \notin DOMAIN S.byId THEN S
  ELSE LET s == S.byId[strokeId]
           kk == clamp(k, 250, 3000)
           c == Centroid(s.points)
           pts == [i \in 1..Len(s.points) |->
                     [s.points[i] EXCEPT
                        !.x = c.x + RDiv((@ - c.x) * kk, 1000),
                        !.y = c.y + RDiv((@ - c.y) * kk, 1000),
                        !.w = clamp(RDiv(@ * kk, 1000), 100, 4000)]]
           s2 == [s EXCEPT !.points = pts, !.bbox = BBoxFrom(pts, 1, emptyBBox)]
       IN  [WriteObj(S, s2) EXCEPT !.redraw = TRUE]

\* ------------------------------------------------------- One-Euro smoothing
\* LowPass: y, a, s as in the class; constructed with alpha 1
NewLowPass == [y |-> 0, a |-> 1000, s |-> 0]

LowPassSetAlpha(lp, alpha) == [lp EXCEPT !.a = clamp(alpha, 0, 1000)]

LowPassFilter(lp, x) ==
  LET y == RDiv(lp.a * x + (1000 - lp.a) * lp.s, 1000)
  IN  [lp EXCEPT !.s = y, !.y = y]

\* alpha(cutoff, dt): cutoff in mHz, dt in microseconds, result in thousandths
\* (a dt of more than a second is taken in milliseconds)
alpha(cutoff, dtUs) ==
  LET tauUs == 159155000 \div cutoff
      g == IF dtUs > 1000000 THEN 1000 ELSE 1
  IN  RDiv((dtUs \div g) * 1000, dtUs \div g + tauUs \div g)

NewOneEuro2D == [x |-> NewLowPass, y |-> NewLowPass, dx |-> NewLowPass,
                 dy |-> NewLowPass, lastT |-> 0]

\* OneEuro2D.filter(p, tMs): the filter after the call (f) and the point
\* returned (out); minCutoff 0.9 Hz, beta 0.02, dCutoff 1.0 Hz
OneEuroFilter(f, p, tMs) ==
  IF f.lastT = 0
  THEN [f |-> [f EXCEPT !.lastT = tMs, !.x = LowPassFilter(f.x, p.x),
                        !.y = LowPassFilter(f.y, p.y)],
        out |-> p]
  ELSE LET dtUs == Max2(8333, (tMs - f.lastT) * 1000)
           vx == ((p.x - f.x.y) * 10000) \div (dtUs \div 100)
           vy == ((p.y - f.y.y) * 10000) \div (dtUs \div 100)
           fdx == LowPassFilter(LowPassSetAlpha(f.dx, alpha(1000, dtUs)), vx)
           fdy == LowPassFilter(LowPassSetAlpha(f.dy, alpha(1000, dtUs)), vy)
           cutoffX == 900 + 2 * Abs(fdx.y)
           cutoffY == 900 + 2 * Abs(fdy.y)
           fx == LowPassFilter(LowPassSetAlpha(f.x, alpha(cutoffX, dtUs)), p.x)
           fy == LowPassFilter(LowPassSetAlpha(f.y, alpha(cutoffY, dtUs)), p.y)
       IN  [f |-> [x |-> fx, y |-> fy, dx |-> fdx, dy |-> fdy, lastT |-> tMs],
            out |-> Pt(fx.y, fy.y)]

\* ------------------------------------------------------------- detections
\* A hand as the recognizer reports it, already mapped to canvas
\* coordinates: the landmarks the engine reads, the four finger-extension
\* tests of computeGestureBooleans (ext = <<index, middle, ring, pinky>>)
\* and the recognizer's gesture label.
computeGestureBooleans(hand, pinchStrength) ==
  [rawPoint |-> hand.ext[1] /\ ~hand.ext[2] /\ ~hand.ext[3] /\ ~hand.ext[4],
   rawPalm  |-> hand.ext[1] /\ hand.ext[2] /\ hand.ext[3] /\ hand.ext[4]
                /\ pinchStrength < 20]

\* the HandDet that step builds from one hand
MakeDet(hand) ==
  LET scalePx == Max2(6000, dist(hand.wrist, hand.middleMcp) * 10)
      pinchDist == dist(hand.indexTip, hand.thumbTip)
      pinchRatio == (pinchDist * 10000) \div Max2(100, scalePx)
      pinchStrength == clamp(((280 - pinchRatio) * 100) \div 160, 0, 100)
      g == computeGestureBooleans(hand, pinchStrength)
  IN  [wrist |-> hand.wrist, palm |-> hand.palm, indexTip |-> hand.indexTip,
       thumbTip |-> hand.thumbTip, indexMcp |-> hand.indexMcp,
       scalePx |-> scalePx, pinchStrength |-> pinchStrength,
       rawPoint |-> (hand.gesture = "Pointing_Up") \/ g.rawPoint,
       rawPalm |-> (hand.gesture = "Open_Palm") \/ g.rawPalm,
       rawGrab |-> hand.gesture \in {"Closed_Fist", "Thumb_Up"}]

\* --------------------------------------------------------- track assignment
MaxMatchDist == 1400

TrackTtl == 700

NewTrack(id, det, nowMs) ==
  [id |-> id, lastSeenMs |-> nowMs, det |-> det,
   pointFilter |-> NewOneEuro2D, pinchFilter |-> NewOneEuro2D,
   palmFilter |-> NewOneEuro2D,
   stablePoint |-> 0, stablePalm |-> 0,
   isPointing |-> FALSE, isPinching |-> FALSE, isOpenPalm |-> FALSE,
   drawStrokeId |-> NoId, selectedStrokeId |-> NoId,
   pinchStartScalePx |-> det.scalePx, pinchStartAng |-> 0,
   lastPinchAng |-> 0, lastPinchPt |-> det.wrist]

\* the inner loop of assignTracks: the index in prev of the nearest unused
\* track nearer than maxMatchDist (0: none); the first of equally near ones
\* BestMatch as it would be if it took the first unused track nearer than
\* maxMatchDist instead of the nearest
RECURSIVE BestMatchFirst(_, _, _, _, _)
BestMatchFirst(prev, used, det, i, best) ==
  IF i > Len(prev) THEN best
  ELSE LET d == Dist2(prev[i].det.wrist, det.wrist)
       IN  IF /\ prev[i].id \notin used
              /\ d < MaxMatchDist * MaxMatchDist
              /\ best.i = 0
           THEN BestMatchFirst(prev, used, det, i + 1, [i |-> i, d |-> d])
           ELSE BestMatchFirst(prev, used, det, i + 1, best)

RECURSIVE BestMatch(_, _, _, _, _)
BestMatch(prev, used, det, i, best) ==
  IF i > Len(prev) THEN best
  ELSE LET d == Dist2(prev[i].det.wrist, det.wrist)
       IN  IF /\ prev[i].id \notin used
              /\ d < MaxMatchDist * MaxMatchDist
              /\ (best.i = 0 \/ d < best.d)
           THEN BestMatch(prev, used, det, i + 1, [i |-> i, d |-> d])
           ELSE BestMatch(prev, used, det, i + 1, best)

RECURSIVE AssignLoop(_, _, _, _, _, _, _)
AssignLoop(prev, dets, nowMs, j, used, next, uid) ==
  IF j > Len(dets) THEN [next |-> next, used |-> used, uid |-> uid]
  ELSE LET best == BestMatch(prev, used, dets[j], 1, [i |-> 0, d |-> 0])
       IN  IF best.i # 0
           THEN AssignLoop(prev, dets, nowMs, j + 1, used \cup {prev[best.i].id},
                           Append(next, [prev[best.i] EXCEPT !.lastSeenMs = nowMs,
                                                             !.det = dets[j]]),
                           uid)
           ELSE AssignLoop(prev, dets, nowMs, j + 1, used,
                           Append(next, NewTrack(uid, dets[j], nowMs)), uid + 1)

\* assignTracks as it would be if a track last seen exactly ttl ago were kept
assignTracksTtlInclusive(tracks, dets, nowMs, uid, maxHands) ==
  LET r == AssignLoop(tracks, dets, nowMs, 1, {}, <<>>, uid)
      Survives(tr) == nowMs - tr.lastSeenMs <= TrackTtl /\ tr.id \notin r.used
      all == r.next \o SelectSeq(tracks, Survives)
  IN  [tracks |-> SubSeq(all, 1, Min2(Len(all), maxHands)), uid |-> r.uid]

\* assignTracks as it would be if the survivors came before the tracks of
\* the frame's detections
assignTracksSurvivorsFirst(tracks, dets, nowMs, uid, maxHands) ==
  LET r == AssignLoop(tracks, dets, nowMs, 1, {}, <<>>, uid)
      Survives(tr) == nowMs - tr.lastSeenMs < TrackTtl /\ tr.id \notin r.used
      all == SelectSeq(tracks, Survives) \o r.next
  IN  [tracks |-> SubSeq(all, 1, Min2(Len(all), maxHands)), uid |-> r.uid]

\* assignTracks(dets, nowMs): the new tracksRef and the id supply
assignTracks(tracks, dets, nowMs, uid, maxHands) ==
  LET r == AssignLoop(tracks, dets, nowMs, 1, {}, <<>>, uid)
      Survives(tr) == nowMs - tr.lastSeenMs < TrackTtl /\ tr.id \notin r.used
      all == r.next \o SelectSeq(tracks, Survives)
  IN  [tracks |-> SubSeq(all, 1, Min2(Len(all), maxHands)), uid |-> r.uid]

\* ------------------------------------------------------------ role arbiter
RECURSIVE MaxScale(_, _)
MaxScale(tracks, i) ==
  IF i > Len(tracks) THEN 0 ELSE Max2(tracks[i].det.scalePx, MaxScale(tracks, i + 1))

updateAdminScaleFromTracks(adminScale, tracks) ==
  IF Len(tracks) = 0 THEN adminScale
  ELSE LET target == MaxScale(tracks, 1)
           cur == IF adminScale = 0 THEN target ELSE adminScale
       IN  RDiv(cur * 85 + target * 15, 100)

isAdminGroup(adminScale, tr) ==
  LET s == IF adminScale = 0 THEN tr.det.scalePx ELSE adminScale
  IN  Abs(tr.det.scalePx - s) * 100 <= 22 * Max2(100, s)

guestsUnlocked(wall, guestUnlockUntil) == wall < guestUnlockUntil

isAllowedToControl(adminScale, tr, wall, guestUnlockUntil) ==
  isAdminGroup(adminScale, tr) \/ guestsUnlocked(wall, guestUnlockUntil)

effectiveColorForHand(isAdmin, wall, guestUnlockUntil, brushColor) ==
  IF ~isAdmin /\ wall < guestUnlockUntil THEN "#000000" ELSE brushColor

\* ------------------------------------------------------------ interactions
\* processInteractions works on R = [S, tracks, tp, until, log]: the store,
\* tracksRef, twoPinchRef, guestUnlockUntilRef and the record of the store
\* calls it makes (log; kept for the properties, not program state).
\* C = [nowMs, wallA, wallB, adminScale, brushColor, eraserMode] is what it
\* reads: the frame time, Date.now() when the act table is built (wallA) and
\* when strokes are started (wallB >= wallA), adminScaleRef and the settings.
NewTwoPinch == [active |-> FALSE, strokeId |-> NoId, baseDist |-> 10, baseAng |-> 0,
                lastK |-> 1000, lastAng |-> 0, lastMid |-> Pt(0, 0)]

LogCall(log, trId, op, strokeId, a, b) ==
  Append(log, [tr |-> trId, op |-> op, id |-> strokeId, a |-> a, b |-> b])

\* the body of act = tracks.map(...): the track after it and its act entry;
\* sp and sl are the stability counters after the frame, pf, nf and lf what
\* the track's three filters return
ActEntry(tr, C, sp, sl, pf, nf, lf) ==
  [tr |-> [tr EXCEPT !.stablePoint = sp, !.stablePalm = sl,
                     !.pointFilter = pf.f, !.pinchFilter = nf.f,
                     !.palmFilter = lf.f],
   x  |-> [allowed |-> isAllowedToControl(C.adminScale, tr, C.wallA, C.until0),
           POINT_ACTIVE |-> sp >= 3,
           PALM_ACTIVE |-> sl >= 3,
           pinchOn |-> tr.det.pinchStrength > 75 \/ tr.det.rawGrab,
           pinchOff |-> tr.det.pinchStrength < 45 /\ ~tr.det.rawGrab,
           pointPt |-> pf.out, pinchPt |-> nf.out, palmPt |-> lf.out,
           pinchAng |-> Atan2(tr.det.indexTip.y - tr.det.thumbTip.y,
                              tr.det.indexTip.x - tr.det.thumbTip.x)]]

\* ActTrack as it would be if a counter were not clamped at 6
ActTrackUnclamped(tr, C) ==
  ActEntry(tr, C,
           IF tr.det.rawPoint THEN tr.stablePoint + 1
           ELSE Max2(0, tr.stablePoint - 1),
           IF tr.det.rawPalm THEN tr.stablePalm + 1
           ELSE Max2(0, tr.stablePalm - 1),
           OneEuroFilter(tr.pointFilter, tr.det.indexTip, C.nowMs),
           OneEuroFilter(tr.pinchFilter,
                         Pt((tr.det.indexTip.x + tr.det.thumbTip.x) \div 2,
                            (tr.det.indexTip.y + tr.det.thumbTip.y) \div 2), C.nowMs),
           OneEuroFilter(tr.palmFilter, tr.det.palm, C.nowMs))

ActTrack(tr, C) ==
  ActEntry(tr, C,
           IF tr.det.rawPoint THEN Min2(6, tr.stablePoint + 1)
           ELSE Max2(0, tr.stablePoint - 1),
           IF tr.det.rawPalm THEN Min2(6, tr.stablePalm + 1)
           ELSE Max2(0, tr.stablePalm - 1),
           OneEuroFilter(tr.pointFilter, tr.det.indexTip, C.nowMs),
           OneEuroFilter(tr.pinchFilter,
                         Pt((tr.det.indexTip.x + tr.det.thumbTip.x) \div 2,
                            (tr.det.indexTip.y + tr.det.thumbTip.y) \div 2), C.nowMs),
           OneEuroFilter(tr.palmFilter, tr.det.palm, C.nowMs))

\* act: the entries of the tracks from i on
RECURSIVE ActLoop(_, _, _)
ActLoop(tracks, C, i) ==
  IF i > Len(tracks) THEN <<>>
  ELSE <<ActTrack(tracks[i], C)>> \o ActLoop(tracks, C, i + 1)

\* picked || old
PickedOr(picked, old) == IF picked # NoId THEN picked ELSE old

\* PinchUpdate as it would be if a pinch onset that picks no stroke cleared
\* the selection
PinchUpdateClearsSelection(tr, x, S) ==
  IF ~x.allowed
  THEN [tr EXCEPT !.isPinching = FALSE, !.isOpenPalm = FALSE, !.isPointing = FALSE,
                  !.drawStrokeId = NoId, !.selectedStrokeId = NoId]
  ELSE IF ~tr.isPinching /\ x.pinchOn
  THEN [tr EXCEPT !.isPinching = TRUE, !.lastPinchPt = x.pinchPt,
                  !.selectedStrokeId = pickStroke(S, x.pinchPt),
                  !.pinchStartScalePx = tr.det.scalePx,
                  !.pinchStartAng = x.pinchAng,
                  !.lastPinchAng = 0]
  ELSE IF tr.isPinching /\ x.pinchOff
  THEN [tr EXCEPT !.isPinching = FALSE]
  ELSE tr

\* the body of the first loop (not-allowed reset, pinch on/off update)
\* PinchUpdate as it would be if a track that is not allowed kept the
\* stroke it was drawing
PinchUpdateKeepsDrawing(tr, x, S) ==
  IF ~x.allowed
  THEN [tr EXCEPT !.isPinching = FALSE, !.isOpenPalm = FALSE,
                  !.selectedStrokeId = NoId]
  ELSE IF ~tr.isPinching /\ x.pinchOn
  THEN [tr EXCEPT !.isPinching = TRUE, !.lastPinchPt = x.pinchPt,
                  !.selectedStrokeId = PickedOr(pickStroke(S, x.pinchPt), @),
                  !.pinchStartScalePx = tr.det.scalePx,
                  !.pinchStartAng = x.pinchAng,
                  !.lastPinchAng = 0]
  ELSE IF tr.isPinching /\ x.pinchOff
  THEN [tr EXCEPT !.isPinching = FALSE]
  ELSE tr

PinchUpdate(tr, x, S) ==
  IF ~x.allowed
  THEN [tr EXCEPT !.isPinching = FALSE, !.isOpenPalm = FALSE, !.isPointing = FALSE,
                  !.drawStrokeId = NoId, !.selectedStrokeId = NoId]
  ELSE IF ~tr.isPinching /\ x.pinchOn
  THEN [tr EXCEPT !.isPinching = TRUE, !.lastPinchPt = x.pinchPt,
                  !.selectedStrokeId = PickedOr(pickStroke(S, x.pinchPt), @),
                  !.pinchStartScalePx = tr.det.scalePx,
                  !.pinchStartAng = x.pinchAng,
                  !.lastPinchAng = 0]
  ELSE IF tr.isPinching /\ x.pinchOff
  THEN [tr EXCEPT !.isPinching = FALSE]
  ELSE tr

\* the first loop over the act entries from i on
RECURSIVE PinchLoop(_, _, _)
PinchLoop(acts, S, i) ==
  IF i > Len(acts) THEN <<>>
  ELSE <<PinchUpdate(acts[i].tr, acts[i].x, S)>> \o PinchLoop(acts, S, i + 1)

\* One guarded store call of the resolver: when its threshold is passed
\* (do), P.S is transformed and the call is recorded in P.log.  P is the
\* frame's R or one track's Q.
ApplyIf(P, trId, do, op, id, a, b) ==
  IF ~do THEN P
  ELSE [P EXCEPT !.S = CASE op = "translate" -> translateStroke(@, id, a, b)
                         [] op = "scale" -> scaleStroke(@, id, a)
                         [] op = "rotate" -> rotateStroke(@, id, a),
                 !.log = LogCall(@, trId, op, id, a, b)]

\* TwoPinchStart as it would be if the pick at the midpoint came before the
\* shared selection
TwoPinchStartPickFirst(R, ta, tb, mid, d, ang, picked) ==
  LET sameSelected ==
        IF ta.selectedStrokeId # NoId /\ ta.selectedStrokeId = tb.selectedStrokeId
        THEN ta.selectedStrokeId ELSE NoId
      lastId == IF Len(R.S.strokes) > 0
                THEN R.S.strokes[Len(R.S.strokes)].id ELSE NoId
  IN  [R EXCEPT !.tp = [active |-> TRUE,
                        strokeId |-> PickedOr(picked, PickedOr(sameSelected, lastId)),
                        baseDist |-> d, baseAng |-> ang, lastK |-> 1000,
                        lastAng |-> 0, lastMid |-> mid]]

\* the two-pinch branch when no session is active: the target is chosen
TwoPinchStart(R, ta, tb, mid, d, ang, picked) ==
  LET sameSelected ==
        IF ta.selectedStrokeId # NoId /\ ta.selectedStrokeId = tb.selectedStrokeId
        THEN ta.selectedStrokeId ELSE NoId
      lastId == IF Len(R.S.strokes) > 0
                THEN R.S.strokes[Len(R.S.strokes)].id ELSE NoId
  IN  [R EXCEPT !.tp = [active |-> TRUE,
                        strokeId |-> PickedOr(sameSelected, PickedOr(picked, lastId)),
                        baseDist |-> d, baseAng |-> ang, lastK |-> 1000,
                        lastAng |-> 0, lastMid |-> mid]]

\* TwoPinchUpdate as it would be if it did not record the new midpoint
TwoPinchUpdateStaleMid(R, tp, mid, k, dAng) ==
  LET dx == mid.x - tp.lastMid.x
      dy == mid.y - tp.lastMid.y
      relK == RDiv(k * 1000, Max2(1, tp.lastK))
      relAng == normAngleDelta(dAng - tp.lastAng)
  IN  [ApplyIf(ApplyIf(ApplyIf(R, NoId, Abs(dx) + Abs(dy) > 2,
                               "translate", tp.strokeId, dx, dy),
                       NoId, Abs(relK - 1000) > 6, "scale", tp.strokeId, relK, 0),
               NoId, Abs(relAng) > 12, "rotate", tp.strokeId, relAng, 0)
         EXCEPT !.tp = [tp EXCEPT !.lastK = k, !.lastAng = dAng]]

\* the two-pinch branch in an active session with a target
TwoPinchUpdate(R, tp, mid, k, dAng) ==
  LET dx == mid.x - tp.lastMid.x
      dy == mid.y - tp.lastMid.y
      relK == RDiv(k * 1000, Max2(1, tp.lastK))
      relAng == normAngleDelta(dAng - tp.lastAng)
  IN  [ApplyIf(ApplyIf(ApplyIf(R, NoId, Abs(dx) + Abs(dy) > 2,
                               "translate", tp.strokeId, dx, dy),
                       NoId, Abs(relK - 1000) > 6, "scale", tp.strokeId, relK, 0),
               NoId, Abs(relAng) > 12, "rotate", tp.strokeId, relAng, 0)
         EXCEPT !.tp = [tp EXCEPT !.lastMid = mid, !.lastK = k, !.lastAng = dAng]]

TwoPinchAt(R, ta, tb, mid, d, ang) ==
  IF ~R.tp.active
  THEN TwoPinchStart(R, ta, tb, mid, d, ang, pickStroke(R.S, mid))
  ELSE IF R.tp.strokeId # NoId
  THEN TwoPinchUpdate(R, R.tp, mid,
                      clamp(RDiv(d * 1000, Max2(100, R.tp.baseDist)), 350, 3000),
                      normAngleDelta(ang - R.tp.baseAng))
  ELSE R

\* the two-pinch branch for the first two allowed pinching tracks a, b
TwoPinch(R, ta, xa, tb, xb) ==
  TwoPinchAt(R, ta, tb,
             Pt((xa.pinchPt.x + xb.pinchPt.x) \div 2, (xa.pinchPt.y + xb.pinchPt.y) \div 2),
             Max2(100, dist(xa.pinchPt, xb.pinchPt)),
             Atan2(xb.pinchPt.y - xa.pinchPt.y, xb.pinchPt.x - xa.pinchPt.x))

\* In the third loop Q = [tr, S, until, log] is threaded through the three
\* stages of one track.
PalmRotate(Q, tr, ang, dAng) ==
  [ApplyIf(Q, tr.id, tr.lastPinchAng # 0 /\ Abs(dAng) > 20,
           "rotate", tr.selectedStrokeId, dAng, 0)
     EXCEPT !.tr.lastPinchAng = ang]

PalmStage(Q, x) ==
  IF ~Q.tr.isOpenPalm /\ x.PALM_ACTIVE
  THEN [Q EXCEPT !.tr.isOpenPalm = TRUE,
                 !.tr.selectedStrokeId = PickedOr(pickStroke(Q.S, x.palmPt), @)]
  ELSE IF Q.tr.isOpenPalm /\ ~x.PALM_ACTIVE
  THEN [Q EXCEPT !.tr.isOpenPalm = FALSE]
  ELSE IF Q.tr.isOpenPalm /\ Q.tr.selectedStrokeId # NoId
  THEN LET ang == Atan2(Q.tr.det.indexMcp.y - Q.tr.det.wrist.y,
                        Q.tr.det.indexMcp.x - Q.tr.det.wrist.x)
       IN  PalmRotate(Q, Q.tr, ang, normAngleDelta(ang - Q.tr.lastPinchAng))
  ELSE Q

PinchStage(Q, x) ==
  LET tr == Q.tr
      id == tr.selectedStrokeId
      dx == x.pinchPt.x - tr.lastPinchPt.x
      dy == x.pinchPt.y - tr.lastPinchPt.y
      dAng == normAngleDelta(x.pinchAng - tr.pinchStartAng)
      relAng == normAngleDelta(dAng - tr.lastPinchAng)
      rel == clamp(RDiv(tr.det.scalePx * 1000, Max2(100, tr.pinchStartScalePx)),
                   920, 1080)
  IN  IF tr.isPinching /\ tr.selectedStrokeId # NoId
      THEN [ApplyIf(ApplyIf(ApplyIf(Q, tr.id, Abs(dx) + Abs(dy) > 2,
                                    "translate", id, dx, dy),
                            tr.id, Abs(relAng) > 12, "rotate", id, relAng, 0),
                    tr.id, Abs(rel - 1000) > 10, "scale", id, rel, 0)
              EXCEPT !.tr.lastPinchPt = x.pinchPt, !.tr.lastPinchAng = dAng,
                     !.tr.pinchStartScalePx = tr.det.scalePx]
      ELSE Q

\* clamp(det.scalePx / max(1, adminS), 0.8, 1.35)
HandScale(tr, adminScale) ==
  LET adminS == IF adminScale = 0 THEN tr.det.scalePx ELSE adminScale
  IN  clamp(RDiv(tr.det.scalePx * 1000, Max2(100, adminS)), 800, 1350)

\* maybeUnlockGuestsByAdminBlackStrokeStart as it would be without the test
\* of the color
maybeUnlockGuestsByAnyStrokeStart(until, isAdmin, color, wall) ==
  IF isAdmin THEN wall + 30000 ELSE until

maybeUnlockGuestsByAdminBlackStrokeStart(until, isAdmin, color, wall) ==
  IF isAdmin /\ color = "#000000" THEN wall + 30000 ELSE until

\* DrawStage as it would be if the end of a stroke left drawStrokeId set
DrawStageKeepsId(Q, x, C) ==
  LET tr == Q.tr
  IN  IF ~tr.isPointing /\ x.POINT_ACTIVE /\ ~tr.isPinching
      THEN IF C.eraserMode
           THEN [Q EXCEPT !.tr.isPointing = TRUE,
                          !.S = eraseStrokeAt(Q.S, x.pointPt),
                          !.log = LogCall(@, tr.id, "erase", NoId, x.pointPt.x, x.pointPt.y)]
           ELSE LET isAdmin == isAdminGroup(C.adminScale, tr)
                    color == effectiveColorForHand(isAdmin, C.wallB, Q.until, C.brushColor)
                    thickness == clamp(RDiv(600 * HandScale(tr, C.adminScale), 1000),
                                       100, 4000)
                IN  [Q EXCEPT !.tr.isPointing = TRUE,
                              !.tr.drawStrokeId = Q.S.uid,
                              !.until = maybeUnlockGuestsByAdminBlackStrokeStart(
                                          @, isAdmin, color, C.wallB),
                              !.S = startStroke(Q.S, color, x.pointPt, C.nowMs, thickness),
                              !.log = LogCall(@, tr.id, "start", Q.S.uid,
                                              x.pointPt.x, x.pointPt.y)]
      ELSE IF tr.isPointing /\ (~x.POINT_ACTIVE \/ tr.isPinching)
      THEN [Q EXCEPT !.tr.isPointing = FALSE]
      ELSE IF tr.isPointing
      THEN IF C.eraserMode
           THEN [Q EXCEPT !.S = eraseStrokeAt(Q.S, x.pointPt),
                          !.log = LogCall(@, tr.id, "erase", NoId, x.pointPt.x, x.pointPt.y)]
           ELSE IF tr.drawStrokeId # NoId
           THEN LET thickness ==
                      clamp(RDiv(600 * HandScale(tr, C.adminScale), 1000)
                              + RDiv(220 * tr.det.pinchStrength, 100), 100, 4000)
                IN  [Q EXCEPT !.S = addStrokePoint(Q.S, tr.drawStrokeId, x.pointPt,
                                                   C.nowMs, thickness),
                              !.log = LogCall(@, tr.id, "append", tr.drawStrokeId,
                                              x.pointPt.x, x.pointPt.y)]
           ELSE Q
      ELSE Q

\* DrawStage as it would be if the onset of pointing in eraser mode only
\* set isPointing and erased from the next frame on
DrawStageEraseLate(Q, x, C) ==
  LET tr == Q.tr
  IN  IF ~tr.isPointing /\ x.POINT_ACTIVE /\ ~tr.isPinching
      THEN IF C.eraserMode
           THEN [Q EXCEPT !.tr.isPointing = TRUE]
           ELSE LET isAdmin == isAdminGroup(C.adminScale, tr)
                    color == effectiveColorForHand(isAdmin, C.wallB, Q.until, C.brushColor)
                    thickness == clamp(RDiv(600 * HandScale(tr, C.adminScale), 1000),
                                       100, 4000)
                IN  [Q EXCEPT !.tr.isPointing = TRUE,
                              !.tr.drawStrokeId = Q.S.uid,
                              !.until = maybeUnlockGuestsByAdminBlackStrokeStart(
                                          @, isAdmin, color, C.wallB),
                              !.S = startStroke(Q.S, color, x.pointPt, C.nowMs, thickness),
                              !.log = LogCall(@, tr.id, "start", Q.S.uid,
                                              x.pointPt.x, x.pointPt.y)]
      ELSE IF tr.isPointing /\ (~x.POINT_ACTIVE \/ tr.isPinching)
      THEN [Q EXCEPT !.tr.isPointing = FALSE, !.tr.drawStrokeId = NoId]
      ELSE IF tr.isPointing
      THEN IF C.eraserMode
           THEN [Q EXCEPT !.S = eraseStrokeAt(Q.S, x.pointPt),
                          !.log = LogCall(@, tr.id, "erase", NoId, x.pointPt.x, x.pointPt.y)]
           ELSE IF tr.drawStrokeId # NoId
           THEN LET thickness ==
                      clamp(RDiv(600 * HandScale(tr, C.adminScale), 1000)
                              + RDiv(220 * tr.det.pinchStrength, 100), 100, 4000)
                IN  [Q EXCEPT !.S = addStrokePoint(Q.S, tr.drawStrokeId, x.pointPt,
                                                   C.nowMs, thickness),
                              !.log = LogCall(@, tr.id, "append", tr.drawStrokeId,
                                              x.pointPt.x, x.pointPt.y)]
           ELSE Q
      ELSE Q

DrawStage(Q, x, C) ==
  LET tr == Q.tr
  IN  IF ~tr.isPointing /\ x.POINT_ACTIVE /\ ~tr.isPinching
      THEN IF C.eraserMode
           THEN [Q EXCEPT !.tr.isPointing = TRUE,
                          !.S = eraseStrokeAt(Q.S, x.pointPt),
                          !.log = LogCall(@, tr.id, "erase", NoId, x.pointPt.x, x.pointPt.y)]
           ELSE LET isAdmin == isAdminGroup(C.adminScale, tr)
                    color == effectiveColorForHand(isAdmin, C.wallB, Q.until, C.brushColor)
                    thickness == clamp(RDiv(600 * HandScale(tr, C.adminScale), 1000),
                                       100, 4000)
                IN  [Q EXCEPT !.tr.isPointing = TRUE,
                              !.tr.drawStrokeId = Q.S.uid,
                              !.until = maybeUnlockGuestsByAdminBlackStrokeStart(
                                          @, isAdmin, color, C.wallB),
                              !.S = startStroke(Q.S, color, x.pointPt, C.nowMs, thickness),
                              !.log = LogCall(@, tr.id, "start", Q.S.uid,
                                              x.pointPt.x, x.pointPt.y)]
      ELSE IF tr.isPointing /\ (~x.POINT_ACTIVE \/ tr.isPinching)
      THEN [Q EXCEPT !.tr.isPointing = FALSE, !.tr.drawStrokeId = NoId]
      ELSE IF tr.isPointing
      THEN IF C.eraserMode
           THEN [Q EXCEPT !.S = eraseStrokeAt(Q.S, x.pointPt),
                          !.log = LogCall(@, tr.id, "erase", NoId, x.pointPt.x, x.pointPt.y)]
           ELSE IF tr.drawStrokeId # NoId
           THEN LET thickness ==
                      clamp(RDiv(600 * HandScale(tr, C.adminScale), 1000)
                              + RDiv(220 * tr.det.pinchStrength, 100), 100, 4000)
                IN  [Q EXCEPT !.S = addStrokePoint(Q.S, tr.drawStrokeId, x.pointPt,
                                                   C.nowMs, thickness),
                              !.log = LogCall(@, tr.id, "append", tr.drawStrokeId,
                                              x.pointPt.x, x.pointPt.y)]
           ELSE Q
      ELSE Q

\* one pass of the third loop: track i of R
TrackMerge(R, i, Q) ==
  [R EXCEPT !.tracks[i] = Q.tr, !.S = Q.S, !.until = Q.until, !.log = Q.log]

\* TrackStep as it would be without the allowed test of the third loop
TrackStepUngated(R, x, i, C) ==
  TrackMerge(R, i,
             DrawStage(PinchStage(PalmStage([tr |-> R.tracks[i], S |-> R.S,
                                             until |-> R.until, log |-> R.log], x),
                                  x),
                       x, C))

TrackStep(R, x, i, C) ==
  IF ~x.allowed THEN R
  ELSE TrackMerge(R, i,
                  DrawStage(PinchStage(PalmStage([tr |-> R.tracks[i], S |-> R.S,
                                                  until |-> R.until, log |-> R.log], x),
                                       x),
                            x, C))

RECURSIVE TrackLoop(_, _, _, _)
TrackLoop(R, acts, i, C) ==
  IF i > Len(R.tracks) THEN R
  ELSE TrackLoop(TrackStep(R, acts[i].x, i, C), acts, i + 1, C)

\* the indices of the act entries with allowed and isPinching, in order
PinchingAllowed(tracks, acts) ==
  SelectSeq([i \in 1..Len(tracks) |-> i],
            LAMBDA i : acts[i].x.allowed /\ tracks[i].isPinching)

\* what the frame made of track i (kept for the properties)
FrameInfo(tr0, tr1, x, C, inSession) ==
  [id |-> tr0.id,
   admin |-> isAdminGroup(C.adminScale, tr0),
   window |-> guestsUnlocked(C.wallA, C.until0),
   allowed |-> x.allowed,
   POINT_ACTIVE |-> x.POINT_ACTIVE,
   PALM_ACTIVE |-> x.PALM_ACTIVE,
   wasPinching |-> tr0.isPinching,
   pinching |-> tr1.isPinching,
   wasPointing |-> tr0.isPointing,
   wasOpenPalm |-> tr0.isOpenPalm,
   drawBefore |-> tr0.drawStrokeId,
   selectedBefore |-> tr0.selectedStrokeId,
   lastSeenMs |-> tr0.lastSeenMs,
   pointPt |-> x.pointPt,
   pinchPt |-> x.pinchPt,
   inSession |-> inSession]

RECURSIVE FrameInfos(_, _, _, _, _, _)
FrameInfos(tracks0, t1, acts, pa, C, i) ==
  IF i > Len(tracks0) THEN <<>>
  ELSE <<FrameInfo(tracks0[i], t1[i], acts[i].x, C,
                   Len(pa) >= 2 /\ i \in {pa[1], pa[2]})>>
         \o FrameInfos(tracks0, t1, acts, pa, C, i + 1)

\* Resolve as it would be if the end of a session left its target id set
ResolveKeepsTarget(R1, acts, pa, C) ==
  IF Len(pa) >= 2
  THEN TwoPinch(R1, R1.tracks[pa[1]], acts[pa[1]].x, R1.tracks[pa[2]], acts[pa[2]].x)
  ELSE TrackLoop([R1 EXCEPT !.tp.active = FALSE], acts, 1, C)

\* Resolve as it would be if the two-pinch branch did not return
ResolveNoReturn(R1, acts, pa, C) ==
  IF Len(pa) >= 2
  THEN TrackLoop(TwoPinch(R1, R1.tracks[pa[1]], acts[pa[1]].x,
                          R1.tracks[pa[2]], acts[pa[2]].x),
                 acts, 1, C)
  ELSE TrackLoop([R1 EXCEPT !.tp.active = FALSE, !.tp.strokeId = NoId], acts, 1, C)

\* after the first loop: the two-pinch branch (and return) or the third loop
Resolve(R1, acts, pa, C) ==
  IF Len(pa) >= 2
  THEN TwoPinch(R1, R1.tracks[pa[1]], acts[pa[1]].x, R1.tracks[pa[2]], acts[pa[2]].x)
  ELSE TrackLoop([R1 EXCEPT !.tp.active = FALSE, !.tp.strokeId = NoId], acts, 1, C)

Interact(R0, C, acts, t1, pa) ==
  Resolve([R0 EXCEPT !.tracks = t1,
                     !.infos = FrameInfos(R0.tracks, t1, acts, pa, C, 1)],
          acts, pa, C)

PinchPhase(R0, C, acts, t1) == Interact(R0, C, acts, t1, PinchingAllowed(t1, acts))

ActPhase(R0, C, acts) == PinchPhase(R0, C, acts, PinchLoop(acts, R0.S, 1))

processInteractions(R0, C) == ActPhase(R0, C, ActLoop(R0.tracks, C, 1))

\* ------------------------------------------------------------------ shapes
\* the canvas (drawRef) of the model: 800 x 600 px
Canvas == [width |-> 8000, height |-> 6000]

ShapePts(shape, c, r) ==
  CASE shape = "circle" ->
         [i \in 1..73 |-> LET a == RDiv((i - 1) * 2 * Pi, 72)
                          IN  Pt(c.x + RDiv(Cos(a) * r, 1000), c.y + RDiv(Sin(a) * r, 1000))]
    [] shape = "square" ->
         <<Pt(c.x - r, c.y - r), Pt(c.x + r, c.y - r), Pt(c.x + r, c.y + r),
           Pt(c.x - r, c.y + r), Pt(c.x - r, c.y - r)>>
    [] shape = "triangle" ->
         <<Pt(c.x, c.y - r), Pt(c.x + r, c.y + r), Pt(c.x - r, c.y + r), Pt(c.x, c.y - r)>>
    [] shape = "heart" ->
         [i \in 1..73 |->
            LET t == RDiv((i - 1) * 2 * Pi, 72)
                st == Sin(t)
                x == (16 * ((st * st) \div 1000) * st) \div 1000
                y == -(13 * Cos(t) - 5 * Cos(2 * t) - 2 * Cos(3 * t) - Cos(4 * t))
            IN  Pt(c.x + RDiv(x * r, 16000), c.y + RDiv(y * r, 16000))]
    [] shape = "star" ->
         [i \in 1..11 |->
            LET rr == IF (i - 1) % 2 = 0 THEN r ELSE r \div 2
                a == RDiv((i - 1) * 2 * Pi, 10) - HalfPi
            IN  Pt(c.x + RDiv(Cos(a) * rr, 1000), c.y + RDiv(Sin(a) * rr, 1000))]
    [] shape = "arrow" ->
         LET w == r
             h == (r * 6) \div 10
         IN  <<Pt(c.x - w, c.y), Pt(c.x + w \div 2, c.y), Pt(c.x + w \div 2, c.y - h \div 2),
               Pt(c.x + w, c.y), Pt(c.x + w \div 2, c.y + h \div 2),
               Pt(c.x + w \div 2, c.y), Pt(c.x - w, c.y)>>
    [] OTHER -> <<>>

drawShapeAtCenter(S, shape, size, color, t0) ==
  LET minDim == Min2(Canvas.width, Canvas.height)
      r == IF size = "small" THEN (minDim * 11) \div 100
           ELSE IF size = "medium" THEN (minDim * 17) \div 100
           ELSE (minDim * 24) \div 100
      c == Pt(Canvas.width \div 2, Canvas.height \div 2)
      pts == ShapePts(shape, c, r)
      sp == [i \in 1..Len(pts) |-> StrokePoint(pts[i], t0, 600)]
      s == [id |-> S.uid, points |-> sp, color |-> color, bbox |-> computeBBox(sp)]
  IN  IF Len(pts) > 0
      THEN [S EXCEPT !.strokes = Append(S.strokes, s),
                     !.byId = MapSet(S.byId, s.id, s),
                     !.redraw = TRUE,
                     !.uid = S.uid + 1]
      ELSE S

\* ------------------------------------------------------------------- state
VARIABLES
  strokesRef,            \* the stroke list
  strokeByIdRef,         \* the id lookup map
  redoRef,               \* the redo stack
  needsFullRedrawRef,    \* the needs-full-redraw flag
  uidNext,               \* the next id uid() returns
  tracksRef,             \* the tracks
  twoPinchRef,           \* the two-hand transform session
  adminScaleRef,         \* the role arbiter's reference scale (0: unset)
  guestUnlockUntilRef,   \* the end of the guest-unlock window
  settingsRef,           \* brushColor, eraserMode, maxHands
  clock,                 \* the time of the last callback, ms
  lastInferMs,           \* the time of the last processed frame
  stepScheduled,         \* a callback of the inference loop (step) is pending
  euro,                  \* a OneEuro2D instance on its own
  steps,                 \* the numbers of steps taken (bound the exploration)
  last                   \* the last step taken: what it was, the store before
                         \* it and the store calls it made (for the properties)

vars == <<strokesRef, strokeByIdRef, redoRef, needsFullRedrawRef, uidNext, tracksRef,
          twoPinchRef, adminScaleRef, guestUnlockUntilRef, settingsRef, clock,
          lastInferMs, stepScheduled, euro, steps, last>>

Store == [strokes |-> strokesRef, byId |-> strokeByIdRef, redo |-> redoRef,
          redraw |-> needsFullRedrawRef, uid |-> uidNext]

SetStore(S) ==
  /\ strokesRef' = S.strokes
  /\ strokeByIdRef' = S.byId
  /\ redoRef' = S.redo
  /\ needsFullRedrawRef' = S.redraw
  /\ uidNext' = S.uid

Snapshot == [strokes |-> strokesRef, redo |-> redoRef, byId |-> strokeByIdRef,
             redraw |-> needsFullRedrawRef,
             tracks |-> tracksRef, tp |-> twoPinchRef, until |-> guestUnlockUntilRef]

\* the record of a step: op, the state before it (pre), the store calls it
\* made (log), what a frame made of each track (infos), its argument (arg);
\* trail holds the stroke list before each undo not yet redone, as long as
\* nothing else changed the store, and expect holds the list a redo that
\* answers such an undo has to restore; drawFrames counts, over the frames
\* processed so far, the tracks that were allowed, POINT-active and not
\* pinching; frameMs is the time of the last processed frame and prevFrameMs
\* that of the one before it (-1: none); palmOnsets holds the tracks whose
\* palm gesture began in the last processed frame (the frame did not return
\* from the two-pinch branch, the track was allowed and PALM-active and its
\* isOpenPalm flag was not set) and prevPalmOnsets those of the processed
\* frame before it
Last(op, S, log, infos, arg) ==
  [op |-> op, pre |-> Snapshot, log |-> log, infos |-> infos, arg |-> arg,
   frameMs |-> IF op = "frame" THEN clock' ELSE last.frameMs,
   prevFrameMs |-> IF op = "frame" THEN last.frameMs ELSE last.prevFrameMs,
   palmOnsets |-> IF op # "frame" THEN last.palmOnsets
                  ELSE IF \E i \in 1..Len(infos) : infos[i].inSession THEN {}
                  ELSE {infos[i].id : i \in {j \in 1..Len(infos) :
                                                 /\ infos[j].allowed
                                                 /\ ~infos[j].wasOpenPalm
                                                 /\ infos[j].PALM_ACTIVE}},
   prevPalmOnsets |-> IF op = "frame" THEN last.palmOnsets ELSE last.prevPalmOnsets,
   drawFrames |-> last.drawFrames
                    + Cardinality({i \in 1..Len(infos) :
                                     /\ infos[i].allowed
                                     /\ infos[i].POINT_ACTIVE
                                     /\ ~infos[i].pinching}),
   trail |-> IF op = "undo"
             THEN IF Len(strokesRef) > 0 THEN Append(last.trail, strokesRef)
                  ELSE last.trail
             ELSE IF op = "redo"
             THEN IF Len(redoRef) > 0 /\ Len(last.trail) > 0
                  THEN SubSeq(last.trail, 1, Len(last.trail) - 1)
                  ELSE IF Len(redoRef) > 0 THEN <<>> ELSE last.trail
             ELSE IF S.strokes = strokesRef /\ S.redo = redoRef THEN last.trail
             ELSE <<>>,
   expect |-> IF op = "redo" /\ Len(redoRef) > 0 /\ Len(last.trail) > 0
              THEN <<last.trail[Len(last.trail)]>>
              ELSE <<>>]

Init ==
  /\ strokesRef = <<>>
  /\ strokeByIdRef = EmptyMap
  /\ redoRef = <<>>
  /\ needsFullRedrawRef = FALSE
  /\ uidNext = 1
  /\ tracksRef = <<>>
  /\ twoPinchRef = NewTwoPinch
  /\ adminScaleRef = 0
  /\ guestUnlockUntilRef = 0
  /\ settingsRef = [brushColor |-> "#69F0AE", eraserMode |-> FALSE, maxHands |-> 4,
                    inferFpsCap |-> 24]
  /\ clock = 0
  /\ lastInferMs = 0
  /\ stepScheduled = TRUE
  /\ euro = NewOneEuro2D
  /\ steps = [ops |-> 0, hist |-> 0]
  /\ last = [op |-> "init",
             pre |-> [strokes |-> <<>>, redo |-> <<>>, byId |-> EmptyMap,
                      redraw |-> FALSE, tracks |-> <<>>,
                      tp |-> NewTwoPinch, until |-> 0],
             log |-> <<>>, infos |-> <<>>, arg |-> <<>>, drawFrames |-> 0,
             frameMs |-> -1, prevFrameMs |-> -1,
             palmOnsets |-> {}, prevPalmOnsets |-> {},
             trail |-> <<>>, expect |-> <<>>]

\* ----------------------------------------------------------------- actions
\* the detections of a frame, from hand i on; a hand without landmarks is
\* passed over (if (!hand?.length) continue)
RECURSIVE DetsOf(_, _)
DetsOf(hands, i) ==
  IF i > Len(hands) THEN <<>>
  ELSE IF hands[i].n = 0 THEN DetsOf(hands, i + 1)
  ELSE <<MakeDet(hands[i])>> \o DetsOf(hands, i + 1)

\* The landmarks of a hand are read at the indices of IDX, the highest being
\* pinkyTip = 20: in a hand of 1 to 20 landmarks hand[IDX.pinkyTip] is
\* undefined and reading its x throws a TypeError.
LandmarkCount == 21

Throws(res) ==
  \/ res.threw
  \/ \E i \in 1..Len(res.landmarks) :
       res.landmarks[i].n > 0 /\ res.landmarks[i].n < LandmarkCount

\* what a step was given (kept for the properties): the numbers of hands
\* with all landmarks (hands) and with fewer (short), whether the recognizer
\* threw, and lag
FrameArg(res, lag) ==
  [hands |-> Cardinality({i \in 1..Len(res.landmarks) :
                            res.landmarks[i].n >= LandmarkCount}),
   short |-> Cardinality({i \in 1..Len(res.landmarks) :
                            res.landmarks[i].n < LandmarkCount}),
   threw |-> res.threw,
   lag |-> lag]

\* A step that throws: lastInferMs is already written, nothing after the
\* throw is executed, the closing schedule((t) => step(t)) included
Thrown(now, arg) ==
  /\ lastInferMs' = now
  /\ stepScheduled' = FALSE
  /\ UNCHANGED <<strokesRef, strokeByIdRef, redoRef, needsFullRedrawRef, uidNext,
                 tracksRef, twoPinchRef, adminScaleRef, guestUnlockUntilRef>>
  /\ last' = Last("throw", Store, <<>>, <<>>, arg)

\* the end of a processed frame: what processInteractions made (R) is
\* written back
Processed(now, adm, R, n) ==
  /\ lastInferMs' = now
  /\ stepScheduled' = TRUE
  /\ SetStore(R.S)
  /\ tracksRef' = R.tracks
  /\ twoPinchRef' = R.tp
  /\ adminScaleRef' = adm
  /\ guestUnlockUntilRef' = R.until
  /\ last' = Last("frame", R.S, R.log, R.infos, n)

\* processInteractions on the tracks assigned (a), with the reference scale
\* adm already updated
Arbitrated(a, adm, now, lag, n) ==
  Processed(now, adm,
            processInteractions(
              [S |-> [Store EXCEPT !.uid = a.uid], tracks |-> a.tracks,
               tp |-> twoPinchRef, until |-> guestUnlockUntilRef,
               log |-> <<>>, infos |-> <<>>],
              [nowMs |-> now, wallA |-> now, wallB |-> now + lag, adminScale |-> adm,
               brushColor |-> settingsRef.brushColor,
               eraserMode |-> settingsRef.eraserMode,
               until0 |-> guestUnlockUntilRef]),
            n)

Assigned(a, now, lag, n) ==
  Arbitrated(a, updateAdminScaleFromTracks(adminScaleRef, a.tracks), now, lag, n)

\* a frame that passes the rate gate: assignTracks,
\* updateAdminScaleFromTracks, processInteractions
Infer(res, now, lag) ==
  Assigned(assignTracks(tracksRef, DetsOf(res.landmarks, 1), now, uidNext,
                        settingsRef.maxHands),
           now, lag, FrameArg(res, lag))

\* One callback of the inference loop (step) at time clock + dt; res is what
\* recognizeForVideo does: it throws (threw) or returns the hands
\* (landmarks); lag is how far Date.now() advances between building the act
\* table and starting strokes.  A callback that comes sooner than the
\* frame-rate cap allows processes nothing and schedules the next one.
Step(res, dt, lag) ==
  /\ stepScheduled
  /\ clock' = clock + dt
  /\ IF (clock + dt - lastInferMs) * Max2(5, settingsRef.inferFpsCap) >= 1000
     THEN IF Throws(res)
          THEN Thrown(clock + dt, FrameArg(res, lag))
          ELSE Infer(res, clock + dt, lag)
     ELSE /\ UNCHANGED <<strokesRef, strokeByIdRef, redoRef, needsFullRedrawRef, uidNext,
                         tracksRef, twoPinchRef, adminScaleRef, guestUnlockUntilRef,
                         lastInferMs, stepScheduled>>
          /\ last' = Last("skip", Store, <<>>, <<>>, FrameArg(res, lag))
  /\ UNCHANGED <<settingsRef, euro>>

\* a store operation called by a command (voice or button)
Command(op, S, arg) ==
  /\ SetStore(S)
  /\ last' = Last(op, S, <<>>, <<>>, arg)
  /\ UNCHANGED <<tracksRef, twoPinchRef, adminScaleRef, guestUnlockUntilRef, settingsRef,
                 clock, lastInferMs, stepScheduled, euro>>

Undo == Command("undo", undo(Store), <<>>)

Redo == Command("redo", redo(Store), <<>>)

ClearAll == Command("clear", clearAll(Store), <<>>)

DrawShape(shape, size) ==
  Command("shape", drawShapeAtCenter(Store, shape, size, settingsRef.brushColor, clock),
          <<shape, size>>)

\* the settings the user interface writes
SetBrushColor(color) ==
  /\ settingsRef' = [settingsRef EXCEPT !.brushColor = color]
  /\ last' = Last("color", Store, <<>>, <<>>, color)
  /\ UNCHANGED <<strokesRef, strokeByIdRef, redoRef, needsFullRedrawRef, uidNext, tracksRef,
                 twoPinchRef, adminScaleRef, guestUnlockUntilRef, clock, lastInferMs,
                 stepScheduled, euro>>

SetEraserMode(on) ==
  /\ settingsRef' = [settingsRef EXCEPT !.eraserMode = on]
  /\ last' = Last("eraser", Store, <<>>, <<>>, on)
  /\ UNCHANGED <<strokesRef, strokeByIdRef, redoRef, needsFullRedrawRef, uidNext, tracksRef,
                 twoPinchRef, adminScaleRef, guestUnlockUntilRef, clock, lastInferMs,
                 stepScheduled, euro>>

\* one pass of the render loop
RenderLoop ==
  /\ needsFullRedrawRef' = FALSE
  /\ last' = Last("render", Store, <<>>, <<>>, needsFullRedrawRef)
  /\ UNCHANGED <<strokesRef, strokeByIdRef, redoRef, uidNext, tracksRef, twoPinchRef,
                 adminScaleRef, guestUnlockUntilRef, settingsRef, clock, lastInferMs,
                 stepScheduled, euro>>

\* the mutator entry points of the store, called directly
Mutator(op, S, log) ==
  /\ SetStore(S)
  /\ last' = Last(op, S, log, <<>>, <<>>)
  /\ UNCHANGED <<tracksRef, twoPinchRef, adminScaleRef, guestUnlockUntilRef, settingsRef,
                 clock, lastInferMs, stepScheduled, euro>>

\* an action of a bounded exploration
Bounded(A, max) == steps.ops < max /\ A /\ steps' = [steps EXCEPT !.ops = @ + 1]

\* a history command (undo, redo, clear) of a bounded exploration
BoundedHist(A, max) == steps.hist < max /\ A /\ steps' = [steps EXCEPT !.hist = @ + 1]

\* ------------------------------------------------- the store on its own
\* SpecStore drives the store through its entry points (startStroke,
\* addStrokePoint, eraseStrokeAt, translateStroke, rotateStroke, scaleStroke,
\* drawShapeAtCenter, undo, redo, clearAll) with arguments from small sets.
MaxStoreOps == 3

MaxHistoryOps == 4

MaxStrokes == 3

StorePts == {Pt(1000, 1000), Pt(1400, 1000), Pt(1700, 1000)}

ErasePts == {Pt(1400, 1000), Pt(4660, 3660), Pt(3340, 2340), Pt(4000, 2400)}

KnownIds == {strokesRef[i].id : i \in 1..Len(strokesRef)}
              \cup {redoRef[i].id : i \in 1..Len(redoRef)}

OpStart ==
  \E p \in StorePts, color \in {"#000000"} :
    /\ Len(strokesRef) < MaxStrokes
    /\ Mutator("start", startStroke(Store, color, p, clock, 600),
               LogCall(<<>>, NoId, "start", uidNext, p.x, p.y))

OpAdd ==
  \E id \in KnownIds, p \in StorePts :
    /\ strokesRef # <<>>
    /\ Mutator("append", addStrokePoint(Store, id, p, clock, 600),
               LogCall(<<>>, NoId, "append", id, p.x, p.y))

OpErase ==
  \E pt \in ErasePts :
    Mutator("erase", eraseStrokeAt(Store, pt), LogCall(<<>>, NoId, "erase", NoId, pt.x, pt.y))

OpTranslate ==
  \E id \in KnownIds, d \in {Pt(400, -70)} :
    Mutator("translate", translateStroke(Store, id, d.x, d.y),
            LogCall(<<>>, NoId, "translate", id, d.x, d.y))

OpRotate ==
  \E id \in KnownIds, a \in {-500} :
    Mutator("rotate", rotateStroke(Store, id, a), LogCall(<<>>, NoId, "rotate", id, a, 0))

OpScale ==
  \E id \in KnownIds, k \in {1500} :
    Mutator("scale", scaleStroke(Store, id, k), LogCall(<<>>, NoId, "scale", id, k, 0))

OpShape ==
  \E shape \in {"square", "triangle"} :
    /\ Len(strokesRef) < MaxStrokes
    /\ DrawShape(shape, "small")

NextStore ==
  \/ Bounded(OpStart, MaxStoreOps)
  \/ Bounded(OpAdd, MaxStoreOps)
  \/ Bounded(OpErase, MaxStoreOps)
  \/ Bounded(OpTranslate, MaxStoreOps)
  \/ Bounded(OpRotate, MaxStoreOps)
  \/ Bounded(OpScale, MaxStoreOps)
  \/ Bounded(OpShape, MaxStoreOps)
  \/ BoundedHist(Undo, MaxHistoryOps)
  \/ BoundedHist(Redo, MaxHistoryOps)
  \/ BoundedHist(ClearAll, MaxHistoryOps)

SpecStore == Init /\ [][NextStore]_vars

\* ---------------------------------------------------------- store claims
TouchedId == last.log[1].id

StrokeWithId(strokes, id) ==
  strokes[CHOOSE i \in 1..Len(strokes) : strokes[i].id = id]

HasId(strokes, id) == \E i \in 1..Len(strokes) : strokes[i].id = id

\* C3: after translateStroke, rotateStroke or scaleStroke on an existing
\* stroke, after an eraseStrokeAt that hits a stroke, and after startStroke,
\* the redo stack is empty.
C3_RedoClearedByMutation ==
  (\/ last.op \in {"translate", "rotate", "scale"} /\ HasId(last.pre.strokes, TouchedId)
   \/ last.op = "erase" /\ strokesRef # last.pre.strokes
   \/ last.op = "start")
  => redoRef = <<>>

\* C4: a redo that answers an undo, with no change of the store in between,
\* restores the stroke list as it was before that undo (same strokes, same
\* order, same points and color); n undos answered by n redos restore the
\* lists in reverse order, the last one being the original list.  The same
\* holds of undo and redo of the earlier user interface, from every store
\* reached.
C4_UndoRedoRoundTrip ==
  /\ (last.op = "redo" /\ Len(last.expect) > 0) => strokesRef = last.expect[1]
  /\ Len(strokesRef) >= 1 => redoUi(undoUi(Store)).strokes = strokesRef
  /\ Len(strokesRef) >= 2 =>
       /\ redoUi(undoUi(undoUi(Store))).strokes
            = SubSeq(strokesRef, 1, Len(strokesRef) - 1)
       /\ redoUi(redoUi(undoUi(undoUi(Store)))).strokes = strokesRef

\* a second redo has answered the first of two undos: the list of at least
\* two strokes is back
C4_Witness ==
  /\ last.op = "redo"
  /\ Len(last.expect) > 0
  /\ Len(last.trail) = 0
  /\ Len(strokesRef) >= 2
  /\ Len(redoRef) = 0
  /\ steps.hist >= 4

TightBBox(pts) ==
  LET xs == {pts[i].x : i \in 1..Len(pts)}
      ys == {pts[i].y : i \in 1..Len(pts)}
  IN  [minX |-> CHOOSE m \in xs : \A v \in xs : m <= v,
       minY |-> CHOOSE m \in ys : \A v \in ys : m <= v,
       maxX |-> CHOOSE m \in xs : \A v \in xs : m >= v,
       maxY |-> CHOOSE m \in ys : \A v \in ys : m >= v]

\* C5: every stroke's cached bbox is the tight axis-aligned bound of its
\* current points.
C5_BBoxTight ==
  \A i \in 1..Len(strokesRef) :
    /\ Len(strokesRef[i].points) > 0
    /\ strokesRef[i].bbox = TightBBox(strokesRef[i].points)

\* a stroke of several points, not all in one place, has just been
\* translated, rotated or scaled
C5_Witness ==
  /\ last.op \in {"translate", "rotate", "scale"}
  /\ HasId(strokesRef, TouchedId)
  /\ LET s == StrokeWithId(strokesRef, TouchedId)
     IN  Len(s.points) >= 3 /\ s.bbox.minX < s.bbox.maxX /\ s.bbox.minY < s.bbox.maxY
  /\ last.pre.strokes # strokesRef

\* the maximal runs of consecutive points of pts outside the radius of pt,
\* as pairs <<first, last>> of indices
OutsideRadius(p, pt) == Dist2(p, pt) > EraserRadius * EraserRadius

MaximalRuns(pts, pt) ==
  {r \in (1..Len(pts)) \X (1..Len(pts)) :
     /\ r[1] <= r[2]
     /\ \A i \in r[1]..r[2] : OutsideRadius(pts[i], pt)
     /\ (r[1] = 1 \/ ~OutsideRadius(pts[r[1] - 1], pt))
     /\ (r[2] = Len(pts) \/ ~OutsideRadius(pts[r[2] + 1], pt))}

RECURSIVE RunsInOrder(_, _, _)
RunsInOrder(pts, runs, from) ==
  IF \A r \in runs : r[1] < from THEN <<>>
  ELSE LET r == CHOOSE q \in runs : q[1] >= from /\ \A o \in runs : o[1] >= from => q[1] <= o[1]
       IN  (IF r[2] - r[1] >= 1 THEN <<SubSeq(pts, r[1], r[2])>> ELSE <<>>)
             \o RunsInOrder(pts, runs, r[2] + 1)

\* what the erase at pt has to make of the strokes: color and points
RECURSIVE ErasedShape(_, _, _)
ErasedShape(strokes, i, pt) ==
  IF i > Len(strokes) THEN <<>>
  ELSE LET s == strokes[i]
           hit == \E j \in 1..Len(s.points) : ~OutsideRadius(s.points[j], pt)
           runs == RunsInOrder(s.points, MaximalRuns(s.points, pt), 1)
       IN  (IF hit THEN [j \in 1..Len(runs) |-> [color |-> s.color, points |-> runs[j]]]
            ELSE <<[color |-> s.color, points |-> s.points]>>)
             \o ErasedShape(strokes, i + 1, pt)

ShapeOf(strokes) ==
  [i \in 1..Len(strokes) |-> [color |-> strokes[i].color, points |-> strokes[i].points]]

ErasePoint == Pt(last.log[1].a, last.log[1].b)

\* C10: eraseStrokeAt(pt) replaces every stroke with a point within the
\* radius by one stroke per maximal run of points outside the radius of
\* length >= 2, in order and in the stroke's color, and leaves the others.
C10_EraseRuns ==
  last.op = "erase" =>
    ShapeOf(strokesRef) = ErasedShape(last.pre.strokes, 1, ErasePoint)

\* an erase in the middle has made two strokes of one
C10_Witness ==
  /\ last.op = "erase"
  /\ Len(strokesRef) = Len(last.pre.strokes) + 1
  /\ \E i \in 1..Len(last.pre.strokes) :
       \E j \in 1..Len(last.pre.strokes[i].points) :
         /\ j > 2
         /\ j < Len(last.pre.strokes[i].points) - 1
         /\ ~OutsideRadius(last.pre.strokes[i].points[j], ErasePoint)

\* some segment (consecutive point pair) of s passes within the radius of pt
SegmentNear(s, pt) ==
  \E i \in 2..Len(s.points) :
    distToSegmentSq(pt, s.points[i - 1], s.points[i]) <= EraserRadius * EraserRadius

\* some point of s lies within the radius of pt
PointNear(s, pt) == \E i \in 1..Len(s.points) : ~OutsideRadius(s.points[i], pt)

\* the stroke s is in the list as it was (same id, points, color, bbox)
Kept(strokes, s) == \E i \in 1..Len(strokes) : strokes[i] = s

\* C11 as stated: after eraseStrokeAt(pt) no segment of any stroke remaining
\* in the store passes within the radius of pt, and the strokes with no part
\* (point or segment) within the radius are left unchanged.
C11_EraseSegments ==
  last.op = "erase" =>
    /\ \A i \in 1..Len(strokesRef) :
         ~SegmentNear(strokesRef[i], ErasePoint) /\ ~PointNear(strokesRef[i], ErasePoint)
    /\ \A k \in 1..Len(last.pre.strokes) :
         (~SegmentNear(last.pre.strokes[k], ErasePoint)
            /\ ~PointNear(last.pre.strokes[k], ErasePoint)) =>
           Kept(strokesRef, last.pre.strokes[k])

\* C11 as amended: after eraseStrokeAt(pt) no point of any stroke remaining
\* in the store lies within the radius of pt, the strokes with no point
\* within the radius are left unchanged (same id, points, color), and two
\* consecutive points that both lie outside the radius stay consecutive
\* points of a remaining stroke, whether or not the segment between them
\* passes within the radius.
C11_ErasePoints ==
  last.op = "erase" =>
    /\ \A i \in 1..Len(strokesRef) : ~PointNear(strokesRef[i], ErasePoint)
    /\ \A k \in 1..Len(last.pre.strokes) :
         LET s == last.pre.strokes[k]
         IN  /\ ~PointNear(s, ErasePoint) => Kept(strokesRef, s)
             /\ \A j \in 2..Len(s.points) :
                  (OutsideRadius(s.points[j - 1], ErasePoint)
                     /\ OutsideRadius(s.points[j], ErasePoint)) =>
                    \E i \in 1..Len(strokesRef) :
                      \E h \in 2..Len(strokesRef[i].points) :
                        /\ strokesRef[i].points[h - 1] = s.points[j - 1]
                        /\ strokesRef[i].points[h] = s.points[j]
                        /\ strokesRef[i].color = s.color

\* an erase has removed a stroke with a point within the radius and left
\* in place a stroke whose points are all outside it
C11_Witness ==
  /\ last.op = "erase"
  /\ \E k \in 1..Len(last.pre.strokes) :
       /\ PointNear(last.pre.strokes[k], ErasePoint)
       /\ ~Kept(strokesRef, last.pre.strokes[k])
  /\ \E k \in 1..Len(last.pre.strokes) :
       /\ ~PointNear(last.pre.strokes[k], ErasePoint)
       /\ Len(last.pre.strokes[k].points) >= 2
       /\ Kept(strokesRef, last.pre.strokes[k])

\* ------------------------------------------------------ hands of the frames
\* A hand for the explorations: the wrist, the hand-scale (the distance from
\* the wrist to the middle-finger knuckle), the index tip and a pose.  The
\* thumb tip is next to the index tip in the pinching pose (pinch strength
\* 1) and far from it otherwise (pinch strength 0); the index finger is
\* extended in the poses "point" and "pinch", all four fingers in "palm",
\* none in "fist".
HandAt(wrist, size, pose, tip) ==
  [wrist |-> wrist,
   palm |-> Pt(wrist.x, wrist.y - 500),
   indexMcp |-> Pt(wrist.x - 300, wrist.y - 900),
   middleMcp |-> Pt(wrist.x, wrist.y - size),
   indexTip |-> tip,
   n |-> LandmarkCount,
   thumbTip |-> IF pose = "pinch" THEN Pt(tip.x + 20, tip.y)
                ELSE Pt(tip.x + 800, tip.y + 600),
   ext |-> IF pose \in {"point", "pinch"} THEN <<TRUE, FALSE, FALSE, FALSE>>
           ELSE IF pose = "palm" THEN <<TRUE, TRUE, TRUE, TRUE>>
           ELSE <<FALSE, FALSE, FALSE, FALSE>>,
   gesture |-> "None"]

WristA == Pt(2000, 5000)

WristB == Pt(6000, 5000)

\* a callback of the inference loop 50 ms after the last one, with the
\* given hands: it passes the rate gate
Frame(hands) == Step([threw |-> FALSE, landmarks |-> hands], 50, 0)

\* ----------------------------------------------- one hand drawing (SpecDraw)
\* One hand of constant size whose wrist stays put: it points at one of
\* three places, pinches with the index finger extended, or makes a fist.
MaxDrawFrames == 7

DrawTips == {Pt(800, 600), Pt(1600, 600), Pt(2400, 600)}

DrawPoint == \E tip \in DrawTips : Frame(<<HandAt(WristA, 1000, "point", tip)>>)

DrawPinch == Frame(<<HandAt(WristA, 1000, "pinch", Pt(1600, 600))>>)

DrawFist == Frame(<<HandAt(WristA, 1000, "fist", Pt(800, 600))>>)

NextDraw ==
  \/ Bounded(DrawPoint, MaxDrawFrames)
  \/ Bounded(DrawPinch, MaxDrawFrames)
  \/ Bounded(DrawFist, MaxDrawFrames)

SpecDraw == Init /\ [][NextDraw]_vars

RECURSIVE TotalPoints(_, _)
TotalPoints(strokes, i) ==
  IF i > Len(strokes) THEN 0 ELSE Len(strokes[i].points) + TotalPoints(strokes, i + 1)

PointsAt(s) == [i \in 1..Len(s.points) |-> Pt(s.points[i].x, s.points[i].y)]

\* C7: with a single stable, allowed track in draw mode, the strokes produced
\* hold as many points as there were processed frames in which the track
\* was POINT-active and not pinching; each such frame adds exactly one point
\* at the filtered index tip (the first of a run starts a stroke, the others
\* append to it), and no other frame adds or removes a point.
C7_PointCount ==
  /\ TotalPoints(strokesRef, 1) = last.drawFrames
  /\ (last.op = "frame" /\ Len(last.infos) = 1) =>
       LET x == last.infos[1]
           pre == last.pre.strokes
       IN  IF x.allowed /\ x.POINT_ACTIVE /\ ~x.pinching
           THEN IF x.wasPointing
                THEN /\ Len(strokesRef) = Len(pre)
                     /\ \A i \in 1..Len(pre) :
                          IF pre[i].id = x.drawBefore
                          THEN PointsAt(strokesRef[i]) = Append(PointsAt(pre[i]), x.pointPt)
                          ELSE strokesRef[i] = pre[i]
                     /\ HasId(pre, x.drawBefore)
                ELSE /\ Len(strokesRef) = Len(pre) + 1
                     /\ SubSeq(strokesRef, 1, Len(pre)) = pre
                     /\ PointsAt(strokesRef[Len(strokesRef)]) = <<x.pointPt>>
           ELSE /\ Len(strokesRef) = Len(pre)
                /\ \A i \in 1..Len(pre) :
                     Len(strokesRef[i].points) = Len(pre[i].points)

\* three POINT-active frames in a row at three places have made one stroke
\* of exactly three points
C7_Witness ==
  /\ last.op = "frame"
  /\ last.drawFrames = 3
  /\ Len(strokesRef) = 1
  /\ Len(strokesRef[1].points) = 3
  /\ Cardinality({strokesRef[1].points[i].x : i \in 1..3}) = 3
  /\ last.infos[1].pointPt = Pt(strokesRef[1].points[3].x, strokesRef[1].points[3].y)

\* ------------------------------------------- presenter and guest (SpecRoles)
\* Hand A is near the camera (scale 200 px) or farther away (100 px), hand B
\* is always the smaller one (100 px); each is in view or not, A points, B
\* points or pinches.  The brush color can be set to black, so that a stroke
\* started by an admin track opens the guest-unlock window.
MaxRoleFrames == 5

RoleHandsA == {<<>>,
               <<HandAt(WristA, 2000, "point", Pt(1500, 2000))>>,
               <<HandAt(WristA, 1000, "point", Pt(1500, 2000))>>}

RoleHandsB == {<<>>,
               <<HandAt(WristB, 1000, "point", Pt(6000, 2000))>>,
               <<HandAt(WristB, 1000, "pinch", Pt(1500, 2000))>>}

RolesFrame == \E a \in RoleHandsA, b \in RoleHandsB : a \o b # <<>> /\ Frame(a \o b)

RolesBlack == settingsRef.brushColor # "#000000" /\ SetBrushColor("#000000")

NextRoles ==
  \/ Bounded(RolesFrame, MaxRoleFrames)
  \/ Bounded(RolesBlack, MaxRoleFrames)

SpecRoles == Init /\ [][NextRoles]_vars

\* the track of last.infos[i] was neither admin nor covered by a guest
\* window in the last frame
Blocked(x) == ~x.admin /\ ~x.window

\* C1: in every processed frame allowed(track) is isAdmin(track) or
\* guestWindowActive(), and a track that is not admin while no guest window
\* is active makes no store call (no start, append, erase, translate, rotate
\* or scale) and takes no part in a two-track session; a frame in which no
\* track is allowed leaves the stroke list and the redo stack as they were.
C1_GuestsBlocked ==
  last.op = "frame" =>
    /\ \A i \in 1..Len(last.infos) :
         /\ last.infos[i].allowed = (last.infos[i].admin \/ last.infos[i].window)
         /\ Blocked(last.infos[i]) =>
              /\ \A j \in 1..Len(last.log) : last.log[j].tr # last.infos[i].id
              /\ ~last.infos[i].inSession
    /\ (\A i \in 1..Len(last.infos) : Blocked(last.infos[i])) =>
         /\ strokesRef = last.pre.strokes
         /\ redoRef = last.pre.redo
         /\ strokeByIdRef = last.pre.byId
         /\ last.log = <<>>

\* a guest shows a stable POINT while the presenter draws in the same frame
C1_Witness ==
  /\ last.op = "frame"
  /\ \E i \in 1..Len(last.infos) :
       /\ Blocked(last.infos[i])
       /\ last.infos[i].POINT_ACTIVE
       /\ \E j \in 1..Len(last.log) : last.log[j].op = "append"

\* C8: whenever exactly one track exists, isAdminGroup classifies it admin.
C8_SingleTrackAdmin ==
  Len(tracksRef) = 1 => isAdminGroup(adminScaleRef, tracksRef[1])

\* ------------------------------------------ two presenter hands (SpecPair)
\* Two hands of the same size, so that both tracks are admin: A points at
\* one of two places or pinches, B is out of view, points or pinches.
MaxPairFrames == 4

PairHandsA == {HandAt(WristA, 1000, "point", Pt(1500, 2000)),
               HandAt(WristA, 1000, "point", Pt(2300, 2000)),
               HandAt(WristA, 1000, "pinch", Pt(1500, 2000))}

PairHandsB == {<<>>,
               <<HandAt(WristB, 1000, "point", Pt(6000, 2000))>>,
               <<HandAt(WristB, 1000, "pinch", Pt(6000, 2000))>>}

PairFrame == \E a \in PairHandsA, b \in PairHandsB : Frame(<<a>> \o b)

NextPair == Bounded(PairFrame, MaxPairFrames)

SpecPair == Init /\ [][NextPair]_vars

\* the track with the given id, in a sequence of tracks that holds it
TrackWithId(tracks, id) == tracks[CHOOSE i \in 1..Len(tracks) : tracks[i].id = id]

\* C2: in a processed frame a track that is pinching after the pinch on/off
\* update neither starts a stroke nor appends a point; if it was drawing
\* when the pinch began, its drawStrokeId is cleared in that frame and the
\* stroke it was drawing is still in the store afterwards.
C2_PinchPreemptsPoint ==
  last.op = "frame" =>
    \A i \in 1..Len(last.infos) :
      LET x == last.infos[i]
      IN  x.pinching =>
            /\ \A j \in 1..Len(last.log) :
                 last.log[j].tr = x.id => last.log[j].op \notin {"start", "append"}
            /\ (~x.wasPinching /\ x.wasPointing /\ x.drawBefore # NoId
                  /\ HasId(last.pre.strokes, x.drawBefore)) =>
                 /\ TrackWithId(tracksRef, x.id).drawStrokeId = NoId
                 /\ HasId(strokesRef, x.drawBefore)

\* C6: a track's drawStrokeId is non-empty only while its isPointing flag is
\* set, no two tracks have the same non-empty drawStrokeId, a track appends
\* only to the stroke its drawStrokeId names, and a stroke gains a point in
\* a frame only if an allowed POINT-active track's drawStrokeId names it.
C6_OneDrawnStroke ==
  /\ \A i \in 1..Len(tracksRef) :
       tracksRef[i].drawStrokeId # NoId => tracksRef[i].isPointing
  /\ \A i, j \in 1..Len(tracksRef) :
       (i # j /\ tracksRef[i].drawStrokeId # NoId) =>
         tracksRef[i].drawStrokeId # tracksRef[j].drawStrokeId
  /\ last.op = "frame" =>
       /\ \A j \in 1..Len(last.log) :
            last.log[j].op = "append" =>
              \E i \in 1..Len(last.infos) :
                /\ last.infos[i].id = last.log[j].tr
                /\ last.infos[i].drawBefore = last.log[j].id
                /\ TrackWithId(tracksRef, last.log[j].tr).drawStrokeId = last.log[j].id
       /\ \A k \in 1..Len(last.pre.strokes) :
            (/\ HasId(strokesRef, last.pre.strokes[k].id)
             /\ Len(StrokeWithId(strokesRef, last.pre.strokes[k].id).points)
                  > Len(last.pre.strokes[k].points)) =>
              /\ Len(StrokeWithId(strokesRef, last.pre.strokes[k].id).points)
                   = Len(last.pre.strokes[k].points) + 1
              /\ \E i \in 1..Len(last.infos) :
                   /\ last.infos[i].drawBefore = last.pre.strokes[k].id
                   /\ last.infos[i].allowed
                   /\ last.infos[i].POINT_ACTIVE

\* two tracks draw at once, each appending to its own stroke
C6_Witness ==
  /\ last.op = "frame"
  /\ Len(tracksRef) = 2
  /\ tracksRef[1].drawStrokeId # NoId
  /\ tracksRef[2].drawStrokeId # NoId
  /\ Cardinality({j \in 1..Len(last.log) : last.log[j].op = "append"}) = 2

\* ---------------------------------------------- two-pinch session (SpecPinch)
\* A square is put at the center of the canvas, and two hands of the same
\* size pinch on either side of it.  From one frame to the next each pinch
\* is at its place, 40 px to the right of it, or 1 px to the right of it.
MaxPinchFrames == 3

PinchOffsets == {0, 400, 10}

PinchShape == strokesRef = <<>> /\ DrawShape("square", "small")

PinchFrame ==
  \E oa \in PinchOffsets, ob \in PinchOffsets :
    Frame(<<HandAt(WristA, 1000, "pinch", Pt(3000 + oa, 3000)),
            HandAt(WristB, 1000, "pinch", Pt(5000 + ob, 3000))>>)

NextPinch ==
  \/ Bounded(PinchShape, MaxPinchFrames + 1)
  \/ Bounded(PinchFrame, MaxPinchFrames + 1)

SpecPinch == Init /\ [][NextPinch]_vars

\* the point a track's pinch filter returned last
PinchPtOf(tr) == Pt(tr.pinchFilter.x.y, tr.pinchFilter.y.y)

\* how far the filtered pinch point of the track of last.infos[i] moved in
\* the last frame
PinchMove(i) ==
  LET p == PinchPtOf(TrackWithId(last.pre.tracks, last.infos[i].id))
  IN  Pt(last.infos[i].pinchPt.x - p.x, last.infos[i].pinchPt.y - p.y)

\* The last frame went on with a two-track session that has a target in the
\* store, the two tracks were the session's tracks in the frame before, and
\* their filtered pinch points moved by one and the same vector.
SessionMoved ==
  /\ last.op = "frame"
  /\ last.pre.tp.active
  /\ HasId(last.pre.strokes, last.pre.tp.strokeId)
  /\ Len(last.infos) = 2
  /\ \A i \in 1..2 :
       /\ last.infos[i].inSession
       /\ last.infos[i].wasPinching
       /\ \E j \in 1..Len(last.pre.tracks) : last.pre.tracks[j].id = last.infos[i].id
  /\ PinchMove(1) = PinchMove(2)

\* the stroke s moved by v: its points and its bbox
Moved(s, v) ==
  [s EXCEPT !.points = [i \in 1..Len(s.points) |->
                          [s.points[i] EXCEPT !.x = @ + v.x, !.y = @ + v.y]],
            !.bbox = [minX |-> s.bbox.minX + v.x, maxX |-> s.bbox.maxX + v.x,
                      minY |-> s.bbox.minY + v.y, maxY |-> s.bbox.maxY + v.y]]

\* the session's target is the stroke it was moved by v, every other stroke
\* is as it was (neither rotated nor scaled)
TargetMovedBy(v) ==
  /\ Len(strokesRef) = Len(last.pre.strokes)
  /\ \A k \in 1..Len(strokesRef) :
       strokesRef[k] = IF last.pre.strokes[k].id = last.pre.tp.strokeId
                       THEN Moved(last.pre.strokes[k], v)
                       ELSE last.pre.strokes[k]

MaxFilterCalls == 3

FilterPts == {Pt(1000, 1000), Pt(1400, 1000), Pt(1000, 1600)}

FilterDts == {0, 16, 50}

\* euro.filter(p, tMs)
EuroFilter(p, tMs) ==
  /\ euro' = OneEuroFilter(euro, p, tMs).f
  /\ clock' = tMs
  /\ last' = Last("filter", Store, <<>>, <<>>,
                  [p |-> p, t |-> tMs, out |-> OneEuroFilter(euro, p, tMs).out])
  /\ UNCHANGED <<strokesRef, strokeByIdRef, redoRef, needsFullRedrawRef, uidNext, tracksRef,
                 twoPinchRef, adminScaleRef, guestUnlockUntilRef, settingsRef, lastInferMs,
                 stepScheduled>>

FilterSample == \E p \in FilterPts, dt \in FilterDts : EuroFilter(p, clock + dt)

NextFilter == Bounded(FilterSample, MaxFilterCalls)

SpecFilter == Init /\ [][NextFilter]_vars

MaxPickOps == 4

PickPts == {Pt(4000, 2400), Pt(4700, 3000), Pt(4000, 3000), Pt(5050, 2000), Pt(1200, 1100)}

OpPick ==
  \E p \in PickPts :
    Mutator("pick", Store, LogCall(<<>>, NoId, "pick", pickStroke(Store, p), p.x, p.y))

NextPick ==
  \/ Bounded(OpStart, MaxPickOps)
  \/ Bounded(OpAdd, MaxPickOps)
  \/ Bounded(OpShape, MaxPickOps)
  \/ Bounded(OpTranslate, MaxPickOps)
  \/ Bounded(OpPick, MaxPickOps)

SpecPick == Init /\ [][NextPick]_vars

\* the squared distances of p to the segments of s
SegDists(s, p) ==
  {distToSegmentSq(p, s.points[i - 1], s.points[i]) : i \in 2..Len(s.points)}

\* the squared distances of p to all segments of all strokes
AllSegDists(strokes, p) == UNION {SegDists(strokes[i], p) : i \in 1..Len(strokes)}

MinOf(ds) == CHOOSE m \in ds : \A v \in ds : m <= v

PickedId == last.log[1].id

PickedAt == Pt(last.log[1].a, last.log[1].b)

\* C13: pickStroke(p) returns the id of a stroke of the store whose least
\* point-to-segment distance to p is the least over all segments of all
\* strokes, if that distance is below the pick radius, and the empty id
\* exactly when no segment of any stroke is nearer than the radius (so the
\* padded-bbox check never rejects the stroke an exhaustive search returns).
C13_PickClosest ==
  last.op = "pick" =>
    LET ds == AllSegDists(strokesRef, PickedAt)
    IN  IF \E d \in ds : d < PickRadius * PickRadius
        THEN /\ HasId(strokesRef, PickedId)
             /\ SegDists(StrokeWithId(strokesRef, PickedId), PickedAt) # {}
             /\ MinOf(SegDists(StrokeWithId(strokesRef, PickedId), PickedAt)) = MinOf(ds)
        ELSE PickedId = NoId

\* two strokes are within the radius of p and the second of them, the
\* nearer one, is returned
C13_Witness ==
  /\ last.op = "pick"
  /\ Len(strokesRef) >= 2
  /\ PickedId = strokesRef[2].id
  /\ \E d \in SegDists(strokesRef[1], PickedAt) :
       /\ d < PickRadius * PickRadius
       /\ d > MinOf(SegDists(strokesRef[2], PickedAt))

\* ------------------------------------- selections gone stale (SpecStale)
\* A square is put at the center of the canvas; hand A pinches beside its
\* left edge, at its place or 40 px to the right of it, hand B is out of
\* view or pinches beside the right edge; between the frames the square is
\* taken away by undo or clear all, and brought back by redo.
MaxStaleFrames == 3

MaxStaleCommands == 2

StaleShape == strokesRef = <<>> /\ DrawShape("square", "small")

StaleFrame ==
  \E oa \in {0, 400}, b \in {<<>>, <<HandAt(WristB, 1000, "pinch", Pt(5000, 3000))>>} :
    Frame(<<HandAt(WristA, 1000, "pinch", Pt(3000 + oa, 3000))>> \o b)

NextStale ==
  \/ Bounded(StaleShape, MaxStaleFrames + 1)
  \/ Bounded(StaleFrame, MaxStaleFrames + 1)
  \/ BoundedHist(Undo, MaxStaleCommands)
  \/ BoundedHist(Redo, MaxStaleCommands)
  \/ BoundedHist(ClearAll, MaxStaleCommands)

SpecStale == Init /\ [][NextStale]_vars

TransformOps == {"translate", "rotate", "scale"}

\* the store calls of the last step were transforms, each of a stroke that
\* was not in the store
StaleCalls ==
  /\ Len(last.log) > 0
  /\ \A j \in 1..Len(last.log) :
       /\ last.log[j].op \in TransformOps
       /\ ~HasId(last.pre.strokes, last.log[j].id)

\* C14: translateStroke, rotateStroke and scaleStroke called with the id of
\* a stroke that is not in the store change nothing (stroke list, lookup
\* map, redo stack, redraw flag) and raise no error; a track or a two-track
\* session whose selection is gone keeps calling them, to no effect.
C14_StaleTransformsNoOp ==
  StaleCalls =>
    /\ strokesRef = last.pre.strokes
    /\ strokeByIdRef = last.pre.byId
    /\ redoRef = last.pre.redo
    /\ needsFullRedrawRef = last.pre.redraw
    /\ stepScheduled

\* a pinching track moves on after its selected stroke was undone: the
\* translate call names a stroke that is on the redo stack
C14_Witness ==
  /\ StaleCalls
  /\ last.op = "frame"
  /\ \E j \in 1..Len(last.log) :
       /\ last.log[j].op = "translate"
       /\ last.log[j].tr # NoId
       /\ HasId(redoRef, last.log[j].id)

\* ------------------------------------------- hands come and go (SpecTracks)
\* Five places, more than the match distance apart, at which pointing hands
\* of the same size are seen: all of the first four, the first alone, the
\* fifth alone, or none; the frames are 300 or 400 ms apart.  maxHands is 4.
MaxTrackFrames == 4

Wrists == <<Pt(1000, 5000), Pt(2600, 5000), Pt(4200, 5000), Pt(5800, 5000), Pt(7400, 5000)>>

HandOf(k) == HandAt(Wrists[k], 1000, "point", Pt(Wrists[k].x, 2000))

TrackHands == {<<>>,
               <<HandOf(1)>>,
               <<HandOf(5)>>,
               <<HandOf(1), HandOf(2), HandOf(3), HandOf(4)>>}

TracksFrame ==
  \E hands \in TrackHands, dt \in {300, 400} :
    Step([threw |-> FALSE, landmarks |-> hands], dt, 0)

NextTracks == Bounded(TracksFrame, MaxTrackFrames)

SpecTracks == Init /\ [][NextTracks]_vars

\* last.infos[i] is a track bound to a detection of the last frame
Bound(i) == last.infos[i].lastSeenMs = clock

\* the ids of the tracks bound to a detection of the last frame
BoundIds == {last.infos[i].id : i \in {j \in 1..Len(last.infos) : Bound(j)}}

\* the tracks of before the frame that got no detection and were seen less
\* than the time-to-live ago
YoungUnmatched ==
  {k \in 1..Len(last.pre.tracks) :
     /\ last.pre.tracks[k].id \notin BoundIds
     /\ clock - last.pre.tracks[k].lastSeenMs < TrackTtl}

\* the track t is in the track set of the frame as it was
KeptAsItWas(t) ==
  \E i \in 1..Len(last.infos) :
    /\ last.infos[i].id = t.id
    /\ last.infos[i].lastSeenMs = t.lastSeenMs
    /\ last.infos[i].wasPointing = t.isPointing
    /\ last.infos[i].wasPinching = t.isPinching
    /\ last.infos[i].wasOpenPalm = t.isOpenPalm
    /\ last.infos[i].drawBefore = t.drawStrokeId
    /\ last.infos[i].selectedBefore = t.selectedStrokeId

C16_CapKeepsBound ==
  last.op = "frame" =>
    /\ Len(last.infos) <= settingsRef.maxHands
    /\ Len(tracksRef) <= settingsRef.maxHands
    /\ Cardinality(BoundIds) = Min2(last.arg.hands, settingsRef.maxHands)
    /\ \A i, j \in 1..Len(last.infos) : (i < j /\ Bound(j)) => Bound(i)
    /\ (\E i \in 1..Len(last.infos) : ~Bound(i)) => Cardinality(BoundIds) = last.arg.hands

\* four young survivors and one new track: the cap has cut a survivor and
\* kept the new track
C16_Witness ==
  /\ last.op = "frame"
  /\ last.arg.hands + Cardinality(YoungUnmatched) > settingsRef.maxHands
  /\ Len(last.infos) = settingsRef.maxHands
  /\ Bound(1)
  /\ \E i \in 1..Len(last.infos) : ~Bound(i)
  /\ \E k \in YoungUnmatched : ~KeptAsItWas(last.pre.tracks[k])

\* ------------------------------------------ the guest window (SpecWindow)
\* The presenter's hand A (near the camera, 200 px) points or makes a fist,
\* the guest's hand B (100 px) points.  The frames are 50 ms apart, or come
\* after a pause of 30 s or 1 ms less; in a frame after a pause Date.now()
\* may advance by 1 ms between the act table and the start of a stroke.  The
\* brush color is set to black and back to the default.
MaxWindowFrames == 4

MaxWindowJumps == 3

WindowHands(a) ==
  <<HandAt(WristA, 2000, a, Pt(1500, 2000)), HandAt(WristB, 1000, "point", Pt(6000, 2000))>>

WindowFrame ==
  \E a \in {"point", "fist"} :
    Step([threw |-> FALSE, landmarks |-> WindowHands(a)], 50, 0)

WindowPause ==
  \E a \in {"point", "fist"}, j \in {<<29999, 0>>, <<29999, 1>>, <<30000, 0>>} :
    Step([threw |-> FALSE, landmarks |-> WindowHands(a)], j[1], j[2])

WindowBlack == settingsRef.brushColor # "#000000" /\ SetBrushColor("#000000")

WindowDefault == settingsRef.brushColor = "#000000" /\ SetBrushColor("#69F0AE")

NextWindow ==
  \/ Bounded(WindowFrame, MaxWindowFrames)
  \/ BoundedHist(WindowPause, MaxWindowJumps)
  \/ BoundedHist(WindowBlack, MaxWindowJumps)
  \/ BoundedHist(WindowDefault, MaxWindowJumps)

SpecWindow == Init /\ [][NextWindow]_vars

\* what the last frame made of the track with the given id
InfoOf(id) == last.infos[CHOOSE i \in 1..Len(last.infos) : last.infos[i].id = id]

\* the strokes started in the last frame, as indices of last.log
Starts == {j \in 1..Len(last.log) : last.log[j].op = "start"}

\* an admin track has started a black stroke in the last frame
AdminBlackStart ==
  \E j \in Starts :
    /\ InfoOf(last.log[j].tr).admin
    /\ StrokeWithId(strokesRef, last.log[j].id).color = "#000000"

\* C17: there is one guest window, guestUnlockUntilRef: it is set by a frame
\* in which an admin track starts a black stroke, to 30 s after that start,
\* and by nothing else; in a frame every track is allowed while the time is
\* before its end, and from its end on a track is allowed only if admin.
C17_UnlockWindow ==
  /\ last.op = "frame" =>
       /\ \A i \in 1..Len(last.infos) :
            last.infos[i].allowed = (last.infos[i].admin \/ clock < last.pre.until)
       /\ guestUnlockUntilRef = IF AdminBlackStart THEN clock + last.arg.lag + 30000
                                ELSE last.pre.until
  /\ last.op # "frame" => guestUnlockUntilRef = last.pre.until

\* the guest has drawn during the window and is denied in a frame 30 s or
\* more after the opening
C17_Witness ==
  /\ last.op = "frame"
  /\ last.pre.until > 0
  /\ clock >= last.pre.until
  /\ guestUnlockUntilRef = last.pre.until
  /\ Len(strokesRef) >= 2
  /\ \E i \in 1..Len(last.infos) :
       /\ ~last.infos[i].admin
       /\ ~last.infos[i].allowed
       /\ last.infos[i].POINT_ACTIVE

\* C18: every stroke started in a frame by a track that is not admin is
\* black (#000000), and every stroke started by an admin track has the
\* brush color of the settings.
C18_GuestStrokesBlack ==
  last.op = "frame" =>
    \A j \in Starts :
      StrokeWithId(strokesRef, last.log[j].id).color
        = IF InfoOf(last.log[j].tr).admin THEN settingsRef.brushColor ELSE "#000000"

\* ------------------------------------- failures in the loop (SpecLoop)
\* Hand A points at one of two places, with or without hand B beside it; a
\* frame's recognizer call may throw, and hand B may come with too few
\* landmarks: none, 5 or 20 instead of 21.
MaxLoopFrames == 4

LoopHandsA == {HandAt(WristA, 1000, "point", Pt(1500, 2000)),
               HandAt(WristA, 1000, "point", Pt(2300, 2000))}

LoopHandB == HandAt(WristB, 1000, "point", Pt(6000, 2000))

LoopFrame ==
  \E a \in LoopHandsA, b \in {<<>>, <<LoopHandB>>} : Frame(<<a>> \o b)

LoopDetectorFails == Step([threw |-> TRUE, landmarks |-> <<>>], 50, 0)

LoopMalformed ==
  \E a \in LoopHandsA, n \in {0, 5, 20} : Frame(<<[LoopHandB EXCEPT !.n = n], a>>)

NextLoop ==
  \/ Bounded(LoopFrame, MaxLoopFrames)
  \/ Bounded(LoopDetectorFails, MaxLoopFrames)
  \/ Bounded(LoopMalformed, MaxLoopFrames)

SpecLoop == Init /\ [][NextLoop]_vars

\* C19: after a step in which the recognizer call threw, the next callback
\* of step is scheduled: the failure does not stop the loop.
C19_DetectorFailureSurvived ==
  (last.op = "throw" /\ last.arg.threw) => stepScheduled

\* C20: a step past the rate gate that is given a hand with fewer than 21
\* landmarks processes the frame without it: the step does not throw, the
\* next callback is scheduled, and the tracks bound to a detection in the
\* frame are those of the hands with all landmarks, one each.
C20_MalformedSkipped ==
  (last.op \in {"frame", "throw"} /\ ~last.arg.threw /\ last.arg.short > 0) =>
    /\ last.op = "frame"
    /\ stepScheduled
    /\ Cardinality(BoundIds) = Min2(last.arg.hands, settingsRef.maxHands)

\* ------------------------------------------ a hand goes away (SpecDecay)
\* One hand points at one of two places or shows its open palm, 50 ms
\* apart, or is out of view in a frame that comes 50 or 300 ms after the
\* last one.
MaxDecayFrames == 6

DecayHands == {<<HandAt(WristA, 1000, "point", Pt(1500, 2000))>>,
               <<HandAt(WristA, 1000, "point", Pt(2300, 2000))>>,
               <<HandAt(WristA, 1000, "palm", Pt(1500, 2000))>>}

DecaySeen == \E hands \in DecayHands : Frame(hands)

DecayUnseen == \E dt \in {50, 300} : Step([threw |-> FALSE, landmarks |-> <<>>], dt, 0)

NextDecay ==
  \/ Bounded(DecaySeen, MaxDecayFrames)
  \/ Bounded(DecayUnseen, MaxDecayFrames)

SpecDecay == Init /\ [][NextDecay]_vars

\* the tracks of before the last frame that are gone after it
Discarded ==
  {k \in 1..Len(last.pre.tracks) :
     \A i \in 1..Len(tracksRef) : tracksRef[i].id # last.pre.tracks[k].id}

\* C21: in a processed frame every track that got no detection in it has
\* its stablePoint and stablePalm counters drained by one step (down to 0),
\* and a track that is discarded had stopped pointing (and showing its
\* palm) before and draws no stroke.
C21_StaleTracksDecay ==
  last.op = "frame" =>
    /\ \A i \in 1..Len(last.infos) :
         ~Bound(i) =>
           /\ \E k \in 1..Len(last.pre.tracks) :
                /\ last.pre.tracks[k].id = last.infos[i].id
                /\ TrackWithId(tracksRef, last.infos[i].id).stablePoint
                     = Max2(0, last.pre.tracks[k].stablePoint - 1)
                /\ TrackWithId(tracksRef, last.infos[i].id).stablePalm
                     = Max2(0, last.pre.tracks[k].stablePalm - 1)
    /\ \A k \in Discarded :
         /\ ~last.pre.tracks[k].isPointing
         /\ ~last.pre.tracks[k].isOpenPalm
         /\ last.pre.tracks[k].drawStrokeId = NoId

\* ------------------------------------------------ the rate gate (SpecRate)
\* A hand points at one of two places in callbacks that come 10, 20 or
\* 50 ms after the last one; the user moves the FPS cap slider (10 to 30),
\* and the effect that owns the inference loop is run again (its
\* dependencies, the recognizers among them, change): the old loop ends and
\* a new one starts with its own lastInferMs = 0.
MaxRateFrames == 5

MaxRateCommands == 2

RateFrame ==
  \E tip \in {Pt(1500, 2000), Pt(2300, 2000)}, dt \in {10, 20, 50} :
    Step([threw |-> FALSE, landmarks |-> <<HandAt(WristA, 1000, "point", tip)>>], dt, 0)

SetInferFpsCap(cap) ==
  /\ settingsRef' = [settingsRef EXCEPT !.inferFpsCap = cap]
  /\ last' = Last("cap", Store, <<>>, <<>>, cap)
  /\ UNCHANGED <<strokesRef, strokeByIdRef, redoRef, needsFullRedrawRef, uidNext, tracksRef,
                 twoPinchRef, adminScaleRef, guestUnlockUntilRef, clock, lastInferMs,
                 stepScheduled, euro>>

RestartLoop ==
  /\ lastInferMs' = 0
  /\ stepScheduled' = TRUE
  /\ last' = Last("restart", Store, <<>>, <<>>, <<>>)
  /\ UNCHANGED <<strokesRef, strokeByIdRef, redoRef, needsFullRedrawRef, uidNext, tracksRef,
                 twoPinchRef, adminScaleRef, guestUnlockUntilRef, settingsRef, clock, euro>>

NextRate ==
  \/ Bounded(RateFrame, MaxRateFrames)
  \/ BoundedHist(\E cap \in {10, 30} : SetInferFpsCap(cap), MaxRateCommands)
  \/ BoundedHist(RestartLoop, MaxRateCommands)

SpecRate == Init /\ [][NextRate]_vars

\* C22: two processed frames that follow one another are at least
\* 1000 / max(5, inferFpsCap) ms apart in callback time, and a callback that
\* comes sooner leaves the tracks, the strokes and the two-track session as
\* they were.
C22_FramesAtLeastMinDtApart ==
  /\ (last.op = "frame" /\ last.prevFrameMs >= 0) =>
       (last.frameMs - last.prevFrameMs) * Max2(5, settingsRef.inferFpsCap) >= 1000
  /\ last.op = "skip" => Snapshot = last.pre

\* -------------------------------------------- debouncing (SpecDebounce)
\* One hand that stays where it is points, shows its open palm or makes a
\* fist, in frames 50 ms apart, or is out of view for one frame.
MaxDebounceFrames == 10

DebounceFrame ==
  \E pose \in {"point", "palm", "fist"} :
    Frame(<<HandAt(WristA, 1000, pose, Pt(1500, 2000))>>)

DebounceUnseen == Frame(<<>>)

NextDebounce ==
  \/ Bounded(DebounceFrame, MaxDebounceFrames)
  \/ Bounded(DebounceUnseen, MaxDebounceFrames)

SpecDebounce == Init /\ [][NextDebounce]_vars

\* the value of a stability counter (field c) of the track id before the
\* last frame: 0 for a track the frame created
CounterBefore(id, c) ==
  IF \E k \in 1..Len(last.pre.tracks) : last.pre.tracks[k].id = id
  THEN TrackWithId(last.pre.tracks, id)[c]
  ELSE 0

\* one step of a counter that was s, clamped to [0, 6]
Debounced(s, raw) == IF raw THEN Min2(6, s + 1) ELSE Max2(0, s - 1)

\* C23: in every processed frame each track's stablePoint and stablePalm
\* counters stay within [0, 6] and move by one step (up when the raw gesture
\* of the track's detection is true, down when it is false, clamped); the
\* gesture is active in the frame iff the counter after the update is >= 3.
\* Hence a track the frame created is not active, a track is active only if
\* its counter was at least 2 before the frame (it rose in three frames
\* from 0), and a frame with the raw gesture false leaves the gesture
\* active when the counter was saturated, and as long as it was at least 4
\* (the second and third such frames after saturation).
C23_Hysteresis ==
  last.op = "frame" =>
    \A i \in 1..Len(last.infos) :
      LET t == TrackWithId(tracksRef, last.infos[i].id)
          p0 == CounterBefore(last.infos[i].id, "stablePoint")
          l0 == CounterBefore(last.infos[i].id, "stablePalm")
      IN  /\ t.stablePoint \in 0..6 /\ t.stablePalm \in 0..6
          /\ t.stablePoint = Debounced(p0, t.det.rawPoint)
          /\ t.stablePalm = Debounced(l0, t.det.rawPalm)
          /\ last.infos[i].POINT_ACTIVE <=> t.stablePoint >= 3
          /\ last.infos[i].PALM_ACTIVE <=> t.stablePalm >= 3
          /\ last.infos[i].POINT_ACTIVE => p0 >= 2
          /\ last.infos[i].PALM_ACTIVE => l0 >= 2
          /\ (p0 >= 4 /\ ~t.det.rawPoint) => last.infos[i].POINT_ACTIVE
          /\ (l0 >= 4 /\ ~t.det.rawPalm) => last.infos[i].PALM_ACTIVE

\* a saturated POINT counter has come down to 4 in two frames without the
\* raw gesture, and in a third such frame the track is still POINT-active
C23_Witness ==
  /\ last.op = "frame"
  /\ steps.ops >= 9
  /\ Len(last.infos) = 1
  /\ CounterBefore(last.infos[1].id, "stablePoint") = 4
  /\ ~tracksRef[1].det.rawPoint
  /\ last.infos[1].POINT_ACTIVE
  /\ tracksRef[1].stablePoint = 3

\* ------------------------------------------ greedy matching (SpecAssign)
\* Pointing hands of the same size whose wrists are on one line, 0, 50, 139
\* or 140 px from the first place: one hand or two hands at different
\* places, in either order, in frames 50 ms apart.
MaxAssignFrames == 3

AssignWrists == {Pt(2000, 5000), Pt(2500, 5000), Pt(3390, 5000), Pt(3400, 5000)}

AssignHand(w) == HandAt(w, 1000, "point", Pt(w.x, 2000))

AssignFrame ==
  \E a \in AssignWrists, b \in AssignWrists :
    Frame(IF a = b THEN <<AssignHand(a)>> ELSE <<AssignHand(a), AssignHand(b)>>)

NextAssign == Bounded(AssignFrame, MaxAssignFrames)

SpecAssign == Init /\ [][NextAssign]_vars

\* the number of the last frame's detections that have a track in the set
BoundCount == Min2(last.arg.hands, Len(last.infos))

\* the tracks of before the frame that detection j can be bound to: those
\* not bound to an earlier detection of the frame whose wrist was less than
\* the match distance from the detection's
Near(j) ==
  {k \in 1..Len(last.pre.tracks) :
     /\ \A i \in 1..(j - 1) : last.infos[i].id # last.pre.tracks[k].id
     /\ Dist2(last.pre.tracks[k].det.wrist, tracksRef[j].det.wrist)
          < MaxMatchDist * MaxMatchDist}

\* the track of detection j is a new one with fresh state
Fresh(j) ==
  /\ \A k \in 1..Len(last.pre.tracks) : last.pre.tracks[k].id # last.infos[j].id
  /\ ~last.infos[j].wasPointing
  /\ ~last.infos[j].wasPinching
  /\ ~last.infos[j].wasOpenPalm
  /\ last.infos[j].drawBefore = NoId
  /\ last.infos[j].selectedBefore = NoId
  /\ tracksRef[j].stablePoint = Debounced(0, tracksRef[j].det.rawPoint)
  /\ tracksRef[j].stablePalm = Debounced(0, tracksRef[j].det.rawPalm)

\* C24: in a processed frame the detections are bound in their order: each
\* to the nearest track of before the frame that no earlier detection was
\* bound to and whose last wrist position is less than 140 px from the
\* detection's, and to a new track with fresh state (counters 0, no gesture
\* flags, no stroke ids) if there is none; no track is bound to two
\* detections and the ids of the track set are distinct.
C24_GreedyNearest ==
  last.op = "frame" =>
    /\ \A j \in 1..BoundCount :
         /\ Bound(j)
         /\ IF Near(j) = {}
            THEN Fresh(j)
            ELSE \E k \in Near(j) :
                   /\ last.infos[j].id = last.pre.tracks[k].id
                   /\ \A m \in Near(j) :
                        Dist2(last.pre.tracks[k].det.wrist, tracksRef[j].det.wrist)
                          <= Dist2(last.pre.tracks[m].det.wrist, tracksRef[j].det.wrist)
    /\ \A i, j \in 1..Len(tracksRef) : i # j => tracksRef[i].id # tracksRef[j].id

\* Two detections of one frame are both within reach of one track of
\* before: the first is bound to it, the second, 139 px from a nearer track
\* that is taken, gets a new track; and a detection 140 px away has got a
\* new track.
C24_Witness ==
  /\ last.op = "frame"
  /\ last.arg.hands = 2
  /\ Len(last.pre.tracks) >= 2
  /\ ~Fresh(1)
  /\ Fresh(2)
  /\ \E k \in 1..Len(last.pre.tracks) :
       /\ last.pre.tracks[k].id = last.infos[1].id
       /\ Dist2(last.pre.tracks[k].det.wrist, tracksRef[2].det.wrist)
            < MaxMatchDist * MaxMatchDist
  /\ \E k \in 1..Len(last.pre.tracks) :
       Dist2(last.pre.tracks[k].det.wrist, tracksRef[2].det.wrist)
         = MaxMatchDist * MaxMatchDist

\* ------------------------------------- sessions begin and end (SpecSession)
\* A square is put at the center of the canvas.  Hand A pinches on the
\* square's left edge or 40 px to the right of it, or points; hand B pinches
\* on the square's right edge or points; a third hand C, of the same size,
\* points.  The frames are 50 ms apart.
MaxSessionFrames == 5

WristC == Pt(4000, 5500)

SessionHandsA == {HandAt(WristA, 1000, "pinch", Pt(3330, 3000)),
                  HandAt(WristA, 1000, "pinch", Pt(3730, 3000)),
                  HandAt(WristA, 1000, "point", Pt(1500, 2000))}

SessionHandsB == {HandAt(WristB, 1000, "pinch", Pt(4650, 3000)),
                  HandAt(WristB, 1000, "point", Pt(6000, 2000))}

SessionHandC == HandAt(WristC, 1000, "point", Pt(4000, 1000))

SessionShape == steps.ops = 0 /\ DrawShape("square", "small")

SessionFrame ==
  /\ steps.ops > 0
  /\ \E a \in SessionHandsA, b \in SessionHandsB : Frame(<<a, b, SessionHandC>>)

NextSession ==
  \/ Bounded(SessionShape, MaxSessionFrames + 1)
  \/ Bounded(SessionFrame, MaxSessionFrames + 1)

SpecSession == Init /\ [][NextSession]_vars

\* the tracks that are allowed and pinching in the last frame, after the
\* pinch on/off update
PinchingNow == {i \in 1..Len(last.infos) : last.infos[i].allowed /\ last.infos[i].pinching}

\* every stroke but the one with the given id is as it was before the last
\* step, and no stroke has come or gone
OthersUntouched(id) ==
  /\ Len(strokesRef) = Len(last.pre.strokes)
  /\ redoRef = last.pre.redo
  /\ \A k \in 1..Len(strokesRef) :
       last.pre.strokes[k].id # id => strokesRef[k] = last.pre.strokes[k]

\* C25: in a processed frame in which at least two allowed tracks are
\* pinching, every store call is a transform of the two-track session's
\* target made by the session (none by a single track: no pinch or palm
\* transform, no stroke started, no point appended, nothing erased), and
\* every stroke but the target is as it was.
C25_SessionOnly ==
  (last.op = "frame" /\ Cardinality(PinchingNow) >= 2) =>
    /\ \A j \in 1..Len(last.log) :
         /\ last.log[j].tr = NoId
         /\ last.log[j].op \in {"translate", "scale", "rotate"}
         /\ last.log[j].id = twoPinchRef.strokeId
    /\ OthersUntouched(twoPinchRef.strokeId)

\* the session moves the square while a third track that is allowed and
\* POINT-active (and has begun no stroke) and a session track that had
\* selected the square are in the frame
C25_Witness ==
  /\ last.op = "frame"
  /\ Cardinality(PinchingNow) = 2
  /\ Len(last.infos) = 3
  /\ \E i \in 1..3 : /\ last.infos[i].allowed /\ last.infos[i].POINT_ACTIVE
                     /\ ~last.infos[i].pinching /\ ~last.infos[i].wasPointing
  /\ \E i \in PinchingNow : last.infos[i].selectedBefore = twoPinchRef.strokeId
  /\ Len(last.log) > 0
  /\ strokesRef # last.pre.strokes

\* C26: at the end of every processed frame the two-track session is active
\* iff at least two allowed tracks are pinching in the frame; a session that
\* is not active has no target id; a session that goes on keeps its target;
\* and the frame in which a session begins makes no store call and leaves
\* the strokes as they were.
C26_SessionLifecycle ==
  last.op = "frame" =>
    /\ twoPinchRef.active <=> Cardinality(PinchingNow) >= 2
    /\ ~twoPinchRef.active => twoPinchRef.strokeId = NoId
    /\ (last.pre.tp.active /\ twoPinchRef.active) =>
         twoPinchRef.strokeId = last.pre.tp.strokeId
    /\ (~last.pre.tp.active /\ twoPinchRef.active) =>
         /\ last.log = <<>>
         /\ strokesRef = last.pre.strokes

\* a session that had the square for its target ends: one of its tracks has
\* stopped pinching
C26_Witness ==
  /\ last.op = "frame"
  /\ last.pre.tp.active
  /\ HasId(strokesRef, last.pre.tp.strokeId)
  /\ Cardinality(PinchingNow) = 1
  /\ ~twoPinchRef.active
  /\ twoPinchRef.strokeId = NoId

\* ------------------------------------ the target of a session (SpecTarget)
\* A small and a large square are put at the center of the canvas, in
\* either order, and the last stroke is taken away by undo.  Hand A pinches
\* on the small square's left edge, on the large square's left edge or far
\* to the left of both; hand B is out of view or pinches on the small
\* square's right edge, on the large square's right edge (with hand A on
\* the left edge the midpoint is then beside the small square's top edge),
\* beside hand A's far place or far to the right.
MaxTargetFrames == 2

MaxTargetCommands == 3

TargetHandsA == {HandAt(WristA, 1000, "pinch", Pt(3330, 3000)),
                 HandAt(WristA, 1000, "pinch", Pt(2550, 2000)),
                 HandAt(WristA, 1000, "pinch", Pt(990, 3000))}

TargetHandsB == {<<>>,
                 <<HandAt(WristB, 1000, "pinch", Pt(4650, 3000))>>,
                 <<HandAt(WristB, 1000, "pinch", Pt(5430, 2000))>>,
                 <<HandAt(WristB, 1000, "pinch", Pt(1990, 3000))>>,
                 <<HandAt(WristB, 1000, "pinch", Pt(6990, 3000))>>}

TargetShape == Len(strokesRef) < 2 /\ \E size \in {"small", "large"} : DrawShape("square", size)

TargetFrame == \E a \in TargetHandsA, b \in TargetHandsB : Frame(<<a>> \o b)

NextTarget ==
  \/ BoundedHist(TargetShape, MaxTargetCommands)
  \/ BoundedHist(Undo, MaxTargetCommands)
  \/ Bounded(TargetFrame, MaxTargetFrames)

SpecTarget == Init /\ [][NextTarget]_vars

\* the last frame began a two-track session
SessionBegan == last.op = "frame" /\ ~last.pre.tp.active /\ twoPinchRef.active

\* the first and the second of the tracks that are allowed and pinching
FirstPinching == CHOOSE i \in PinchingNow : \A j \in PinchingNow : i <= j

SecondPinching ==
  CHOOSE i \in PinchingNow \ {FirstPinching} :
    \A j \in PinchingNow \ {FirstPinching} : i <= j

\* the midpoint of the filtered pinch points of the session's two tracks
SessionMid ==
  Pt((last.infos[FirstPinching].pinchPt.x + last.infos[SecondPinching].pinchPt.x) \div 2,
     (last.infos[FirstPinching].pinchPt.y + last.infos[SecondPinching].pinchPt.y) \div 2)

\* the stroke both tracks of the session have selected (NoId: none)
SameSelected ==
  IF /\ tracksRef[FirstPinching].selectedStrokeId # NoId
     /\ tracksRef[FirstPinching].selectedStrokeId
          = tracksRef[SecondPinching].selectedStrokeId
  THEN tracksRef[FirstPinching].selectedStrokeId
  ELSE NoId

\* some segment of some stroke is within the pick radius of the midpoint
MidNearStroke ==
  \E d \in AllSegDists(strokesRef, SessionMid) : d < PickRadius * PickRadius

MaxSelectFrames == 5

SelectWrist == Pt(3340, 3500)

SelectHands == {HandAt(SelectWrist, 1000, "pinch", Pt(3330, 3000)),
                HandAt(SelectWrist, 1000, "pinch", Pt(990, 1000)),
                HandAt(SelectWrist, 1000, "pinch", Pt(1390, 1000)),
                HandAt(SelectWrist, 1000, "palm", Pt(990, 1000)),
                HandAt(SelectWrist, 1000, "fist", Pt(990, 1000))}

SelectShape == steps.ops = 0 /\ DrawShape("square", "small")

SelectFrame == steps.ops > 0 /\ \E h \in SelectHands : Frame(<<h>>)

NextSelect ==
  \/ Bounded(SelectShape, MaxSelectFrames + 1)
  \/ Bounded(SelectFrame, MaxSelectFrames + 1)

SpecSelect == Init /\ [][NextSelect]_vars

\* the track of last.infos[i] began to pinch in the last frame (and its
\* palm gesture did not begin in it)
PinchOnset(i) ==
  /\ last.infos[i].allowed
  /\ ~last.infos[i].wasPinching
  /\ last.infos[i].pinching
  /\ ~(~last.infos[i].wasOpenPalm /\ last.infos[i].PALM_ACTIVE)

\* some segment of a stroke of before the frame is within the pick radius
\* of the filtered pinch midpoint of last.infos[i]
PinchNearStroke(i) ==
  \E d \in AllSegDists(last.pre.strokes, last.infos[i].pinchPt) :
    d < PickRadius * PickRadius

\* C28 as stated: a track whose pick at pinch onset finds no stroke has no
\* selected stroke after it, whatever it had selected before.
C28_NoPickNoSelection ==
  last.op = "frame" =>
    \A i \in 1..Len(last.infos) :
      (PinchOnset(i) /\ ~PinchNearStroke(i)) =>
        TrackWithId(tracksRef, last.infos[i].id).selectedStrokeId = NoId

\* C28 as amended: at pinch onset the stroke picked at the filtered pinch
\* midpoint, a nearest one within the pick radius, becomes the track's
\* selected stroke; if the pick finds none the track keeps the stroke it had
\* selected before (none if it had none); every transform a single track
\* applies is applied to the stroke it has selected, so a track without a
\* selection transforms nothing.
C28_PickOrKeepSelection ==
  last.op = "frame" =>
    /\ \A i \in 1..Len(last.infos) :
         PinchOnset(i) =>
           LET sel == TrackWithId(tracksRef, last.infos[i].id).selectedStrokeId
           IN  IF PinchNearStroke(i)
               THEN /\ HasId(last.pre.strokes, sel)
                    /\ MinOf(SegDists(StrokeWithId(last.pre.strokes, sel),
                                      last.infos[i].pinchPt))
                         = MinOf(AllSegDists(last.pre.strokes, last.infos[i].pinchPt))
               ELSE sel = last.infos[i].selectedBefore
    /\ \A j \in 1..Len(last.log) :
         (last.log[j].tr # NoId /\ last.log[j].op \in TransformOps) =>
           /\ last.log[j].id # NoId
           /\ last.log[j].id = TrackWithId(tracksRef, last.log[j].tr).selectedStrokeId

\* a track that had selected the square begins to pinch far from it: the
\* pick finds nothing and the square stays selected
C28_Witness ==
  /\ last.op = "frame"
  /\ Len(last.infos) = 1
  /\ PinchOnset(1)
  /\ ~PinchNearStroke(1)
  /\ last.infos[1].selectedBefore # NoId
  /\ tracksRef[1].selectedStrokeId = last.infos[1].selectedBefore
  /\ HasId(strokesRef, tracksRef[1].selectedStrokeId)

\* C29: every translation a single track's pinch applies equals the track's
\* filtered pinch midpoint of the frame minus its filtered pinch midpoint of
\* the processed frame before, also in the frames that follow a two-track
\* session.
C29_TranslateByFrameDelta ==
  last.op = "frame" =>
    \A j \in 1..Len(last.log) :
      (last.log[j].tr # NoId /\ last.log[j].op = "translate") =>
        \E i \in 1..Len(last.infos) :
          /\ last.infos[i].id = last.log[j].tr
          /\ \E k \in 1..Len(last.pre.tracks) : last.pre.tracks[k].id = last.log[j].tr
          /\ last.log[j].a = last.infos[i].pinchPt.x
                               - PinchPtOf(TrackWithId(last.pre.tracks, last.log[j].tr)).x
          /\ last.log[j].b = last.infos[i].pinchPt.y
                               - PinchPtOf(TrackWithId(last.pre.tracks, last.log[j].tr)).y

\* ------------------------------------------- the open palm (SpecPalm)
\* A square is put at the center of the canvas.  One hand, whose palm
\* center is on the square's left edge, shows its open palm with the index
\* knuckle to the left or to the right of the wrist, or pinches on the
\* square's left edge with the thumb beside or below the index tip, in
\* frames 50 ms apart.
MaxPalmFrames == 6

PalmHand == HandAt(SelectWrist, 1000, "palm", Pt(990, 1000))

PalmPinch == HandAt(SelectWrist, 1000, "pinch", Pt(3330, 3000))

PalmHands == {PalmHand,
              [PalmHand EXCEPT !.indexMcp = Pt(SelectWrist.x + 300, SelectWrist.y - 900)],
              PalmPinch,
              [PalmPinch EXCEPT !.thumbTip = Pt(3330, 3020)]}

PalmShape == steps.ops = 0 /\ DrawShape("square", "small")

PalmFrame == steps.ops > 0 /\ \E h \in PalmHands : Frame(<<h>>)

NextPalm ==
  \/ Bounded(PalmShape, MaxPalmFrames + 1)
  \/ Bounded(PalmFrame, MaxPalmFrames + 1)

SpecPalm == Init /\ [][NextPalm]_vars

\* the wrist-to-index-base angle of a detection
PalmAngle(det) == Atan2(det.indexMcp.y - det.wrist.y, det.indexMcp.x - det.wrist.x)

\* in the last frame the palm gesture of the track of last.infos[i] went on
\* (it was open before and is still active), with a selected stroke, and
\* the track is not pinching
PalmGoesOn(i) ==
  /\ last.infos[i].allowed
  /\ last.infos[i].wasOpenPalm
  /\ last.infos[i].PALM_ACTIVE
  /\ ~last.infos[i].pinching
  /\ last.infos[i].selectedBefore # NoId
  /\ \E k \in 1..Len(last.pre.tracks) : last.pre.tracks[k].id = last.infos[i].id

\* C30: while a track's palm gesture is active with a selected stroke and
\* the track is not pinching, every store call it makes is a rotation of
\* the selected stroke by the difference between the wrist-to-index-base
\* angles of this frame and of the frame before (never a translation or a
\* scaling), and in the first frame after the palm onset it makes none.
C30_PalmRotatesByFrameDelta ==
  last.op = "frame" =>
    \A i \in 1..Len(last.infos) :
      PalmGoesOn(i) =>
        /\ \A j \in 1..Len(last.log) :
             last.log[j].tr = last.infos[i].id =>
               /\ last.log[j].op = "rotate"
               /\ last.log[j].id = last.infos[i].selectedBefore
               /\ last.log[j].a
                    = normAngleDelta(
                        PalmAngle(TrackWithId(tracksRef, last.infos[i].id).det)
                          - PalmAngle(TrackWithId(last.pre.tracks, last.infos[i].id).det))
        /\ last.infos[i].id \in last.prevPalmOnsets =>
             \A j \in 1..Len(last.log) : last.log[j].tr # last.infos[i].id

\* ------------------------------------------- eraser mode (SpecEraser)
\* A square is put at the center of the canvas.  One hand points at the
\* middle of the square's left edge or at its top left corner, pinches at
\* the edge, or makes a fist, in frames 50 ms apart; the eraser button is
\* pressed between frames.
MaxEraserFrames == 5

MaxEraserCommands == 2

EraserTips == {Pt(3340, 3000), Pt(3340, 2340)}

EraserShape == steps.ops = 0 /\ DrawShape("square", "small")

EraserToggle == steps.ops > 0 /\ SetEraserMode(~settingsRef.eraserMode)

EraserFrame ==
  /\ steps.ops > 0
  /\ \E h \in {HandAt(WristA, 1000, "point", tip) : tip \in EraserTips}
              \cup {HandAt(WristA, 1000, "pinch", Pt(3340, 3000)),
                    HandAt(WristA, 1000, "fist", Pt(3340, 3000))} :
       Frame(<<h>>)

NextEraser ==
  \/ Bounded(EraserShape, MaxEraserFrames + 1)
  \/ BoundedHist(EraserToggle, MaxEraserCommands)
  \/ Bounded(EraserFrame, MaxEraserFrames + 1)

SpecEraser == Init /\ [][NextEraser]_vars

\* the track of last.infos[i] was allowed, POINT-active and not pinching in
\* the last frame, and the frame did not belong to a two-track session
PointingAlone(i) ==
  /\ last.infos[i].allowed
  /\ last.infos[i].POINT_ACTIVE
  /\ ~last.infos[i].pinching
  /\ \A k \in 1..Len(last.infos) : ~last.infos[k].inSession

\* C31: while eraser mode is on, a frame starts no stroke and appends no
\* point (no stroke is added at the end of the list, no track takes a new
\* drawStrokeId), and every allowed, non-pinching, pointing track outside a
\* two-track session calls eraseStrokeAt at its filtered pointer position.
C31_EraserErases ==
  (last.op = "frame" /\ settingsRef.eraserMode) =>
    /\ \A j \in 1..Len(last.log) : last.log[j].op \notin {"start", "append"}
    /\ \A k \in 1..Len(tracksRef) :
         tracksRef[k].drawStrokeId # NoId =>
           \E m \in 1..Len(last.pre.tracks) :
             /\ last.pre.tracks[m].id = tracksRef[k].id
             /\ last.pre.tracks[m].drawStrokeId = tracksRef[k].drawStrokeId
    /\ \A i \in 1..Len(last.infos) :
         PointingAlone(i) =>
           \E j \in 1..Len(last.log) :
             /\ last.log[j].tr = last.infos[i].id
             /\ last.log[j].op = "erase"
             /\ last.log[j].a = last.infos[i].pointPt.x
             /\ last.log[j].b = last.infos[i].pointPt.y

\* eraser mode is on, a pointing track erased in the frame in which its
\* pointing began, and the erase changed the square
C31_Witness ==
  /\ last.op = "frame"
  /\ settingsRef.eraserMode
  /\ \E i \in 1..Len(last.infos) :
       /\ PointingAlone(i)
       /\ ~last.infos[i].wasPointing
  /\ \E j \in 1..Len(last.log) : last.log[j].op = "erase"
  /\ strokesRef # last.pre.strokes

\* ------------------------------------------- linear history (SpecHistory)
\* Strokes are created by startStroke and by the shape command, and the
\* history commands are given in between; nothing else changes the store.
MaxCreateOps == 3

MaxRedoOps == 4

NextHistory ==
  \/ Bounded(OpStart, MaxCreateOps)
  \/ Bounded(OpShape, MaxCreateOps)
  \/ BoundedHist(Undo, MaxRedoOps)
  \/ BoundedHist(Redo, MaxRedoOps)

SpecHistory == Init /\ [][NextHistory]_vars

\* C32: history is linear: a redo does not re-insert a stroke that was
\* undone before a new stroke was created.  Ids are given in the order of
\* creation and undo takes the youngest stroke of the list, so a stroke of
\* the list that is younger than the one a redo brings back was created
\* after that one was undone.
C32_LinearHistory ==
  (last.op = "redo" /\ Len(last.pre.redo) > 0) =>
    \A k \in 1..Len(last.pre.strokes) :
      last.pre.strokes[k].id < last.pre.redo[Len(last.pre.redo)].id

\* ------------------------------------------- transforms about the centroid
\* the last step was a transform of a stroke the id map holds
Transformed ==
  /\ last.op \in {"translate", "rotate", "scale"}
  /\ Len(last.log) = 1
  /\ TouchedId \in DOMAIN last.pre.byId

\* Coordinates are tenths of a pixel and every operation rounds to them:
\* two lengths or two places agree when they differ by at most two tenths.
Agree(a, b) == Abs(a - b) <= 2

SamePlace(p, q) == Agree(p.x, q.x) /\ Agree(p.y, q.y)

\* Sin and Cos are thousandths: a rotation keeps a length to two tenths of
\* a pixel and a thousandth of the length.
AgreeTurned(a, b) == Abs(a - b) * 1000 <= 2000 + a + b

\* strokes but for the stroke with the given id
Others(strokes, id) ==
  [k \in 1..Len(strokes) |-> IF strokes[k].id = id THEN NoId ELSE strokes[k]]

\* C33: rotateStroke and scaleStroke leave the centroid of the stroke's
\* points where it was (each point keeps its distance from the centroid
\* under a rotation and has it multiplied by the clamped factor under a
\* scaling), translateStroke moves every point and the centroid by exactly
\* (dx, dy); all three keep the stroke's id, color, point count and the
\* order of its points (their timestamps), and change no other stroke.
C33_TransformsAboutCentroid ==
  Transformed =>
    /\ TouchedId \in DOMAIN strokeByIdRef
    /\ strokeByIdRef[TouchedId].id = TouchedId
    /\ strokeByIdRef[TouchedId].color = last.pre.byId[TouchedId].color
    /\ Len(strokeByIdRef[TouchedId].points) = Len(last.pre.byId[TouchedId].points)
    /\ \A i \in 1..Len(last.pre.byId[TouchedId].points) :
         /\ strokeByIdRef[TouchedId].points[i].t = last.pre.byId[TouchedId].points[i].t
         /\ last.op = "translate" =>
              /\ strokeByIdRef[TouchedId].points[i].x
                   = last.pre.byId[TouchedId].points[i].x + last.log[1].a
              /\ strokeByIdRef[TouchedId].points[i].y
                   = last.pre.byId[TouchedId].points[i].y + last.log[1].b
         /\ last.op = "rotate" =>
              AgreeTurned(dist(strokeByIdRef[TouchedId].points[i],
                         Centroid(last.pre.byId[TouchedId].points)),
                    dist(last.pre.byId[TouchedId].points[i],
                         Centroid(last.pre.byId[TouchedId].points)))
         /\ last.op = "scale" =>
              Agree(dist(strokeByIdRef[TouchedId].points[i],
                         Centroid(last.pre.byId[TouchedId].points)),
                    RDiv(dist(last.pre.byId[TouchedId].points[i],
                              Centroid(last.pre.byId[TouchedId].points))
                           * clamp(last.log[1].a, 250, 3000), 1000))
    /\ last.op = "translate" =>
         Centroid(strokeByIdRef[TouchedId].points)
           = Pt(Centroid(last.pre.byId[TouchedId].points).x + last.log[1].a,
                Centroid(last.pre.byId[TouchedId].points).y + last.log[1].b)
    /\ last.op \in {"rotate", "scale"} =>
         SamePlace(Centroid(strokeByIdRef[TouchedId].points),
                   Centroid(last.pre.byId[TouchedId].points))
    /\ Others(strokesRef, TouchedId) = Others(last.pre.strokes, TouchedId)
    /\ redoRef = last.pre.redo
    /\ DOMAIN strokeByIdRef = DOMAIN last.pre.byId
    /\ \A id \in DOMAIN strokeByIdRef \ {TouchedId} : strokeByIdRef[id] = last.pre.byId[id]

\* a square, whose centroid is not the center of its bounding box (its
\* first corner is also its last point), was turned while another stroke
\* was in the store
C33_Witness ==
  /\ Transformed
  /\ last.op = "rotate"
  /\ Len(strokesRef) >= 2
  /\ Len(last.pre.byId[TouchedId].points) >= 4
  /\ strokeByIdRef[TouchedId].points # last.pre.byId[TouchedId].points
  /\ ~SamePlace(Centroid(last.pre.byId[TouchedId].points),
                Pt(RDiv(last.pre.byId[TouchedId].bbox.minX
                          + last.pre.byId[TouchedId].bbox.maxX, 2),
                   RDiv(last.pre.byId[TouchedId].bbox.minY
                          + last.pre.byId[TouchedId].bbox.maxY, 2)))

\* ------------------------------------------- the full redraw (SpecRedraw)
\* The store is driven through its entry points as in SpecStore, and the
\* render loop runs in between.
MaxRedrawOps == 3

MaxRedrawCommands == 3

NextRedraw ==
  \/ Bounded(OpStart, MaxRedrawOps)
  \/ Bounded(OpAdd, MaxRedrawOps)
  \/ Bounded(OpErase, MaxRedrawOps)
  \/ Bounded(OpTranslate, MaxRedrawOps)
  \/ Bounded(OpRotate, MaxRedrawOps)
  \/ Bounded(OpScale, MaxRedrawOps)
  \/ BoundedHist(Undo, MaxRedrawCommands)
  \/ BoundedHist(Redo, MaxRedrawCommands)
  \/ BoundedHist(ClearAll, MaxRedrawCommands)
  \/ BoundedHist(RenderLoop, MaxRedrawCommands)

SpecRedraw == Init /\ [][NextRedraw]_vars

\* the last step was a bulk change of the store: an undo of a stroke, a
\* redo of one, an erase with a point of a stroke within its radius, a
\* transform of a stroke the id map holds, or a clear of a store with
\* strokes
BulkChange ==
  \/ last.op = "undo" /\ Len(last.pre.strokes) > 0
  \/ last.op = "redo" /\ Len(last.pre.redo) > 0
  \/ /\ last.op = "erase"
     /\ \E k \in 1..Len(last.pre.strokes) : PointNear(last.pre.strokes[k], ErasePoint)
  \/ last.op \in {"translate", "rotate", "scale"} /\ TouchedId \in DOMAIN last.pre.byId
  \/ last.op = "clear" /\ Len(last.pre.strokes) > 0

\* C34: every bulk change of the store sets needsFullRedrawRef, the flag
\* stays set until the render loop takes it (and is not set after that),
\* and addStrokePoint leaves it as it is.
C34_RedrawFlag ==
  /\ BulkChange => needsFullRedrawRef
  /\ (last.pre.redraw /\ last.op # "render") => needsFullRedrawRef
  /\ last.op = "render" => ~needsFullRedrawRef
  /\ last.op = "append" => needsFullRedrawRef = last.pre.redraw

\* after the render loop had taken the flag, an erase that cut a stroke
\* set it again
C34_Witness ==
  /\ last.op = "erase"
  /\ strokesRef # last.pre.strokes
  /\ ~last.pre.redraw
  /\ needsFullRedrawRef
  /\ steps.hist > 0

\* ------------------------------------------- the id map and the list
\* C35: the keys of the id map are exactly the ids of the strokes in the
\* list, which are distinct; each key maps to the stroke of the list with
\* that id; no stroke of the redo stack is in the map.
C35_MapAgreesWithList ==
  /\ DOMAIN strokeByIdRef = {strokesRef[i].id : i \in 1..Len(strokesRef)}
  /\ \A i \in 1..Len(strokesRef) :
       /\ strokeByIdRef[strokesRef[i].id] = strokesRef[i]
       /\ \A j \in 1..Len(strokesRef) : strokesRef[j].id = strokesRef[i].id => j = i
  /\ \A k \in 1..Len(redoRef) : redoRef[k].id \notin DOMAIN strokeByIdRef

\* an erase has cut a stroke (the map was built anew) while the redo stack
\* held a stroke
C35_Witness ==
  /\ last.op = "erase"
  /\ strokesRef # last.pre.strokes
  /\ Len(strokesRef) >= 2
  /\ Len(redoRef) > 0

\* ------------------------------------------- undone strokes (SpecUndone)
\* A square is put at the center of the canvas.  Hand A points at the
\* middle of the square's left edge or pinches there or 40 px to the right;
\* while it pinches, hand B pinches at the right edge.  Between the
\* frames the last stroke is undone or redone, or eraser mode is turned on.
MaxUndoneFrames == 4

MaxUndoneCommands == 3

UndoneHandsA == {HandAt(WristA, 1000, "point", Pt(3340, 3000)),
                 HandAt(WristA, 1000, "pinch", Pt(3330, 3000)),
                 HandAt(WristA, 1000, "pinch", Pt(3730, 3000))}

UndoneHandB == HandAt(WristB, 1000, "pinch", Pt(4650, 3000))

UndoneShape == steps.ops = 0 /\ DrawShape("square", "small")

UndoneFrame ==
  /\ steps.ops > 0
  /\ \E a \in UndoneHandsA :
       IF a.thumbTip.x = a.indexTip.x + 20 THEN Frame(<<a, UndoneHandB>>)
       ELSE Frame(<<a>>)

UndoneEraser == steps.ops > 0 /\ ~settingsRef.eraserMode /\ SetEraserMode(TRUE)

NextUndone ==
  \/ Bounded(UndoneShape, MaxUndoneFrames + 1)
  \/ Bounded(UndoneFrame, MaxUndoneFrames + 1)
  \/ BoundedHist(Undo, MaxUndoneCommands)
  \/ BoundedHist(Redo, MaxUndoneCommands)
  \/ BoundedHist(UndoneEraser, MaxUndoneCommands)

SpecUndone == Init /\ [][NextUndone]_vars

\* C36: a stroke on the redo stack is not modified: undo puts the stroke on
\* the stack as it is, a frame leaves the stack as it is (or empties it,
\* when it starts a stroke), whatever ids its tracks and the two-track
\* session hold, and redo puts the stroke back as it is on the stack.
C36_UndoneUntouched ==
  /\ (last.op = "undo" /\ Len(last.pre.strokes) > 0) =>
       redoRef = Append(last.pre.redo, last.pre.strokes[Len(last.pre.strokes)])
  /\ last.op = "frame" =>
       \/ redoRef = last.pre.redo
       \/ /\ redoRef = <<>>
          /\ \E j \in 1..Len(last.log) : last.log[j].op = "start"
  /\ (last.op = "redo" /\ Len(last.pre.redo) > 0) =>
       strokesRef = Append(last.pre.strokes, last.pre.redo[Len(last.pre.redo)])

\* a track went on drawing a stroke that was undone: its append names a
\* stroke of the redo stack
C36_Witness ==
  /\ last.op = "frame"
  /\ \E j \in 1..Len(last.log) :
       /\ last.log[j].op = "append"
       /\ HasId(redoRef, last.log[j].id)

\* ------------------------------------------- erased by another (SpecErased)
\* A square is put at the center of the canvas.  Hand A points at the
\* square's top left corner or pinches there or 40 px to the right, hand B
\* points 10 px below the corner; the eraser button is pressed between
\* frames.
MaxErasedFrames == 6

MaxErasedCommands == 2

ErasedHandsA == {HandAt(WristA, 1000, "point", Pt(3340, 2340)),
                 HandAt(WristA, 1000, "pinch", Pt(3330, 2340)),
                 HandAt(WristA, 1000, "pinch", Pt(3730, 2340))}

ErasedHandB == HandAt(WristB, 1000, "point", Pt(3340, 2440))

ErasedSquare == steps.ops = 0 /\ DrawShape("square", "small")

ErasedFrame == steps.ops > 0 /\ \E a \in ErasedHandsA : Frame(<<a, ErasedHandB>>)

ErasedToggle == steps.ops > 0 /\ SetEraserMode(~settingsRef.eraserMode)

NextErased ==
  \/ Bounded(ErasedSquare, MaxErasedFrames + 1)
  \/ Bounded(ErasedFrame, MaxErasedFrames + 1)
  \/ BoundedHist(ErasedToggle, MaxErasedCommands)

SpecErased == Init /\ [][NextErased]_vars

\* the ids of the strokes the last step made
MadeIds == (DOMAIN strokeByIdRef) \ (DOMAIN last.pre.byId)

\* the last frame's store calls were appends and transforms, each with the
\* id of a stroke that was neither in the list nor on the redo stack
GoneCalls ==
  /\ last.op = "frame"
  /\ Len(last.log) > 0
  /\ \A j \in 1..Len(last.log) :
       /\ last.log[j].op \in TransformOps \cup {"append"}
       /\ ~HasId(last.pre.strokes, last.log[j].id)
       /\ ~HasId(last.pre.redo, last.log[j].id)

\* C37: a frame in which a track erases gives no track the id of a stroke
\* the erase made; the appends and transforms a track calls with the id of
\* a stroke that is gone change nothing in the store; a track starts a
\* stroke only in a frame in which it was not pointing before.
C37_ErasedNotRetargeted ==
  last.op = "frame" =>
    /\ (\E j \in 1..Len(last.log) : last.log[j].op = "erase") =>
         \A k \in 1..Len(tracksRef) :
           /\ tracksRef[k].drawStrokeId \notin MadeIds
           /\ tracksRef[k].selectedStrokeId \notin MadeIds
    /\ GoneCalls =>
         /\ strokesRef = last.pre.strokes
         /\ strokeByIdRef = last.pre.byId
         /\ redoRef = last.pre.redo
         /\ needsFullRedrawRef = last.pre.redraw
    /\ \A j \in 1..Len(last.log) :
         last.log[j].op = "start" =>
           \E i \in 1..Len(last.infos) :
             last.infos[i].id = last.log[j].tr /\ ~last.infos[i].wasPointing

\* the first erase of a frame, by one track, took from the store the stroke
\* that another track was drawing, and that track still holds the id
C37_Witness ==
  /\ last.op = "frame"
  /\ Len(last.log) > 0
  /\ last.log[1].op = "erase"
  /\ \E i \in 1..Len(last.infos) :
       /\ last.infos[i].id # last.log[1].tr
       /\ last.infos[i].wasPointing
       /\ HasId(last.pre.strokes, last.infos[i].drawBefore)
       /\ PointNear(StrokeWithId(last.pre.strokes, last.infos[i].drawBefore),
                    Pt(last.log[1].a, last.log[1].b))
       /\ ~HasId(strokesRef, last.infos[i].drawBefore)
       /\ TrackWithId(tracksRef, last.infos[i].id).drawStrokeId = last.infos[i].drawBefore

\* ------------------------------------------- clear all
\* C38: after clearAll the stroke list and the redo stack are both empty,
\* also when the list was empty before the call.
C38_ClearEmptiesAll ==
  last.op = "clear" => (strokesRef = <<>> /\ redoRef = <<>>)

\* ------------------------------------------- tracks that are not allowed
\* C39: at the end of a frame without a two-track session a track that was
\* not allowed has isPinching, isOpenPalm and isPointing false and no
\* drawStrokeId or selectedStrokeId, and the stroke it was drawing is still
\* in the store; a track appends only to the stroke it held while pointing
\* before the frame and starts a stroke, with a new id, only when it was
\* not pointing before, so that a track allowed again starts a new stroke.
C39_BlockedTrackReset ==
  (last.op = "frame" /\ \A i \in 1..Len(last.infos) : ~last.infos[i].inSession) =>
    \A i \in 1..Len(last.infos) :
      /\ ~last.infos[i].allowed =>
           /\ ~TrackWithId(tracksRef, last.infos[i].id).isPinching
           /\ ~TrackWithId(tracksRef, last.infos[i].id).isOpenPalm
           /\ ~TrackWithId(tracksRef, last.infos[i].id).isPointing
           /\ TrackWithId(tracksRef, last.infos[i].id).drawStrokeId = NoId
           /\ TrackWithId(tracksRef, last.infos[i].id).selectedStrokeId = NoId
           /\ HasId(last.pre.strokes, last.infos[i].drawBefore) =>
                HasId(strokesRef, last.infos[i].drawBefore)
      /\ \A j \in 1..Len(last.log) :
           last.log[j].tr = last.infos[i].id =>
             /\ last.log[j].op = "append" =>
                  /\ last.infos[i].wasPointing
                  /\ last.log[j].id = last.infos[i].drawBefore
             /\ last.log[j].op = "start" =>
                  /\ ~last.infos[i].wasPointing
                  /\ last.log[j].id \notin DOMAIN last.pre.byId

\* a track that was drawing is not allowed in the last frame; its stroke
\* is in the store
C39_Witness ==
  /\ last.op = "frame"
  /\ \E i \in 1..Len(last.infos) :
       /\ ~last.infos[i].allowed
       /\ last.infos[i].wasPointing
       /\ last.infos[i].drawBefore # NoId
       /\ HasId(strokesRef, last.infos[i].drawBefore)
       /\ TrackWithId(tracksRef, last.infos[i].id).drawStrokeId = NoId

\* ------------------------------------------- strokes have points
\* C40: every stroke of the list and of the redo stack has a point, every
\* stroke an erase makes has two or more, and the centroid that
\* rotateStroke and scaleStroke compute (a sum divided by the number of
\* points) is a point within the stroke's bounding box.
C40_StrokesHavePoints ==
  /\ \A i \in 1..Len(strokesRef) : Len(strokesRef[i].points) >= 1
  /\ \A k \in 1..Len(redoRef) : Len(redoRef[k].points) >= 1
  /\ last.op = "erase" =>
       \A i \in 1..Len(strokesRef) :
         strokesRef[i].id \notin DOMAIN last.pre.byId => Len(strokesRef[i].points) >= 2
  /\ (Transformed /\ last.op \in {"rotate", "scale"}) =>
       /\ Len(last.pre.byId[TouchedId].points) >= 1
       /\ bboxContains(last.pre.byId[TouchedId].bbox,
                       Centroid(last.pre.byId[TouchedId].points))

\* an erase at a corner of a square has made two strokes of two points
\* each, beside a stroke of one point
C40_Witness ==
  /\ last.op = "erase"
  /\ \E i \in 1..Len(strokesRef) :
       /\ strokesRef[i].id \notin DOMAIN last.pre.byId
       /\ Len(strokesRef[i].points) = 2
  /\ \E i \in 1..Len(strokesRef) : Len(strokesRef[i].points) = 1
====
